---- MODULE Spec2Model ----
(***************************************************************************)
(* Model of the gateway client of openclaw-node-kobo (package gateway,     *)
(* Client.Run and everything it calls).                                    *)
(*                                                                         *)
(* Durations are in milliseconds.  A frame id made by nextID is the value  *)
(* of requestSeq it was made from (the random suffix adds nothing to its   *)
(* uniqueness); ids chosen by the gateway for its own frames are negative  *)
(* numbers, so an outgoing id equals an incoming one only when copied.     *)
(***************************************************************************)
EXTENDS Integers, Sequences, FiniteSets, TLC

\* ------------------------------------------------------------- bounds
MaxConns  == 2     \* successful dials of one run
MaxFrames == 4     \* frames read on one connection
MaxSends  == 2     \* SendEvent calls made by the touch goroutine
MaxClock  == 121   \* the clock stops here, in seconds
MaxComps  == 2     \* components in the A2UI state
MaxPushes == 3     \* pushes applied to an A2UI state on its own
Width     == 3     \* the canvas, in pixels
Height    == 2

\* ------------------------------------------------------------- program constants
InitialBackoff       == 1000     \* backoff := time.Second
BackoffCap           == 30000    \* 30 * time.Second
PairingBackoff       == 10000    \* 10 * time.Second
DefaultRestartMs     == 1000     \* int(time.Second / time.Millisecond)
ClosePolicyViolation == 1008
CloseNormalClosure   == 1000
Debounce             == 30       \* 30 * time.Second, in seconds
ClockStart           == 1        \* the clock when the manager is made, in seconds

\* ------------------------------------------------------------- values
NoFile      == [exists |-> FALSE, json |-> FALSE]
StoredToken == "t0"                 \* a token saved by an earlier run
IssuedToken == "t1"                 \* a token the gateway issues in hello-ok
NoAuth      == "<nil>"              \* hello-ok without an auth block
Nonces      == {"", "n1", "n2"}
Phrases     == {"pairing required", "device identity required", "device token mismatch"}
GatewayID   == 0 - 1                \* an id the gateway chose for one of its req frames
ForeignID   == 0 - 2                \* a res id that answers no request of this client
NoID        == 0                    \* the empty id ""

\* The goroutines that call WriteMessage.
RunW     == [role |-> "run",   conn |-> 0]
TouchW   == [role |-> "touch", conn |-> 0]
PingW(k) == [role |-> "ping",  conn |-> k]
NoWriter == [role |-> "none",  conn |-> 0]
Pingers  == {PingW(k) : k \in 1..MaxConns}
Writers  == {RunW, TouchW} \cup Pingers

\* Errors: typed says the error is a backoffProvider (errors.As succeeds).
NoErr               == [kind |-> "none", typed |-> FALSE, backoff |-> 0, text |-> ""]
PlainErr(k, txt)    == [NoErr EXCEPT !.kind = k, !.text = txt]
backoffError(k, d)  == [NoErr EXCEPT !.kind = k, !.typed = TRUE, !.backoff = d]

\* Frames the client writes.
NilAuth == [nil |-> TRUE, Token |-> "", Password |-> ""]
ConnectAuth(t, p) == [nil |-> FALSE, Token |-> t, Password |-> p]
NoFrame == [type |-> "", method |-> "", id |-> NoID, event |-> "", reqId |-> "",
            nodeId |-> "", ok |-> FALSE, errMsg |-> "", nonce |-> "", reason |-> "",
            auth |-> NilAuth, signedToken |-> ""]
RequestFrame(id, method) == [NoFrame EXCEPT !.type = "req", !.id = id, !.method = method]
PingFrame == [NoFrame EXCEPT !.type = "ping"]

\* ------------------------------------------------------------- what the gateway sends
Malformed         == [json |-> FALSE]
OtherType         == [json |-> TRUE, type |-> "other"]
EventFrame(e, p)  == [json |-> TRUE, type |-> "event", event |-> e, payload |-> p]
ReqFrame(i, m, p) == [json |-> TRUE, type |-> "req", id |-> i, method |-> m, params |-> p]
ResponseFrame(i, ok, msg, p) ==
    [json |-> TRUE, type |-> "res", id |-> i, ok |-> ok, errMsg |-> msg, payload |-> p]

BadPayload == [valid |-> FALSE]
ChallengePayloads == {BadPayload} \cup {[valid |-> TRUE, nonce |-> n] : n \in Nonces}
GoodInvoke == [valid |-> TRUE, id |-> "r1", nodeId |-> "nd", command |-> "cmd"]
InvokePayloads ==
    {BadPayload, GoodInvoke, [GoodInvoke EXCEPT !.id = ""],
     [GoodInvoke EXCEPT !.nodeId = ""], [GoodInvoke EXCEPT !.command = ""]}
ShutdownPayloads ==
    {BadPayload, [valid |-> TRUE, has |-> FALSE, ms |-> 0]} \cup
    {[valid |-> TRUE, has |-> TRUE, ms |-> d] : d \in {0 - 5, 0, 500, 5000}}
HelloPayloads ==
    {BadPayload} \cup
    {[valid |-> TRUE, type |-> "other", auth |-> a] : a \in {NoAuth, IssuedToken}} \cup
    {[valid |-> TRUE, type |-> "hello-ok", auth |-> a] : a \in {NoAuth, "", IssuedToken}}

GoodInvokeFrames ==
    {EventFrame("node.invoke.request", GoodInvoke),
     ReqFrame(GatewayID, "node.invoke.request", GoodInvoke)}
InvokeFrames ==
    {EventFrame("node.invoke.request", p) : p \in InvokePayloads} \cup
    {ReqFrame(GatewayID, "node.invoke.request", p) : p \in InvokePayloads}
IgnoredFrames ==
    {Malformed, OtherType, EventFrame("tick", BadPayload),
     EventFrame("voicewake.changed", BadPayload), EventFrame("unknown", BadPayload),
     ReqFrame(GatewayID, "other", BadPayload)}
ChallengeFrames == {EventFrame("connect.challenge", p) : p \in ChallengePayloads}
ShutdownFrames  == {EventFrame("shutdown", p) : p \in ShutdownPayloads}
ResFrames(cid) ==
    {ResponseFrame(cid, FALSE, m, BadPayload) : m \in {"", "denied"}} \cup
    {ResponseFrame(cid, TRUE, "", p) : p \in HelloPayloads} \cup
    {ResponseFrame(i, TRUE, "", [valid |-> TRUE, type |-> "hello-ok", auth |-> IssuedToken]) :
        i \in {NoID, ForeignID}}

\* The res frames that carry a device token.
TokenFrames(cid) ==
    {ResponseFrame(cid, TRUE, "", [valid |-> TRUE, type |-> "hello-ok", auth |-> IssuedToken])}

\* What ReadMessage returns instead of a frame.
ReadErrors ==
    {[kind |-> "plain"]} \cup
    {[kind |-> "close", code |-> ClosePolicyViolation, reason |-> r] : r \in SUBSET Phrases}
    \cup
    {[kind |-> "close", code |-> CloseNormalClosure, reason |-> r] :
        r \in {{}, {"device token mismatch"}}}

\* What the invoke handler returns as its error ("" is nil).
HandlerErrors == {"", "bad"}

VARIABLES
    cfg,            \* Config given to New: dialer, onInvoke, deviceTokenPath set or not
    ctxCancelled,   \* the root context is done
    pc,             \* where the Run goroutine is
    conn,           \* c.conn: 0 is nil, otherwise the id of the open connection
    dials,          \* connections opened so far
    backoff,        \* Run's backoff
    timer,          \* duration of the timer waitBackoff is sleeping on
    lastErr,        \* the error that ended the last cycle
    deviceToken,    \* c.deviceToken
    tokenFile,      \* content of the token file, or NoFile
    nonce,          \* registerNode's nonce
    connectSent,    \* registerNode's connectSent
    connectID,      \* registerNode's connectID
    requestSeq,     \* c.requestSeq
    writeMu,        \* holder of c.writeMu, or NoWriter
    wr,             \* per writer: state, frame in hand, connection it writes to
    frames,         \* frames read on this connection
    sends,          \* SendEvent calls made by the touch goroutine
    hist,           \* observations of what happened (not read by the program)
    reason,         \* main's readyState.reason
    rhist,          \* observations of registrations and resumes (not read by the program)
    mgr,            \* power.Manager: SuspendEnabled and IdleTimeout
    now,            \* the clock, in seconds
    suspending,     \* Manager.suspending
    wifiBusy,       \* Manager.wifiBusy
    commandBusy,    \* Manager.commandBusy
    lastWakeNano,   \* Manager.lastWakeNano, in seconds (0: never woke)
    idleTimer,      \* Manager.idleTimer
    sus,            \* per caller of Suspend: where it is, and what Suspend returned last
    mrun,           \* where the goroutine of Manager.Run is
    phist,          \* observations of the power manager (not read by the program)
    scene,          \* the components of the canvas handler's A2UI state
    hitTargets,     \* Renderer.HitTargets
    image,          \* Renderer.Image, the gray of each pixel
    fbUpdate,       \* the last refresh ioctl of the framebuffer
    sender,         \* whether the handler has an ActionSender
    touch,          \* the last touch and the SendEvent calls it made
    render,         \* the render in progress on the gateway goroutine
    chist           \* observations of the canvas (not read by the program)

\* The state of the power manager, and the state of the canvas.
pvars == <<mgr, now, suspending, wifiBusy, commandBusy, lastWakeNano, idleTimer, sus,
           mrun, phist>>
cvars == <<scene, hitTargets, image, fbUpdate, sender, touch, render, chist>>

\* The state of the gateway client.
gvars == <<cfg, ctxCancelled, pc, conn, dials, backoff, timer, lastErr, deviceToken,
           tokenFile, nonce, connectSent, connectID, requestSeq, writeMu, wr,
           frames, sends, hist>>

\* The state of main's readyState.
rvars == <<reason, rhist>>

vars == <<gvars, rvars, pvars, cvars>>


\* ------------------------------------------------------------- observations
NoInvoke == [form |-> "", frameId |-> NoID, reqId |-> "", nodeId |-> "", herr |-> ""]
NoSend   == [res |-> "", writes |-> 0]

\* No mismatch close has come, or a later read error or connect request has.
NoMismatch == [step |-> "none", token |-> ""]

HistInit ==
    [seen       |-> {},        \* non-empty nonces challenged on this connection
     stale      |-> FALSE,     \* a challenge with an empty or a repeated nonce was read
     early      |-> FALSE,     \* a valid node.invoke.request was read during the handshake
     connects   |-> <<>>,      \* sendConnect calls on this connection: the nonce, and
                               \* whether it was non-empty and not seen before
     helloOk    |-> FALSE,     \* the res answering the connect, ok with hello-ok, was read
     registered |-> 0,         \* OnRegistered calls on this connection
     recv       |-> 0,         \* valid node.invoke.request frames read after Ready
     calls      |-> 0,         \* invoke handler calls on this connection
     results    |-> 0,         \* node.invoke.result frames given to WriteMessage
     lastInvoke |-> NoInvoke,  \* the last valid invoke request and what the handler returned
     lastWrite  |-> NoFrame,   \* the last frame the Run goroutine gave to WriteMessage
     afterErr   |-> 0,         \* 1: a handler error was reported; 2: a later frame was processed
     lastSend   |-> NoSend,    \* how the touch goroutine's last SendEvent ended
     touchWrites |-> 0,        \* WriteMessage calls of the touch goroutine's current SendEvent
     runErr     |-> "",        \* what Run returned
     overridden |-> FALSE,     \* applyBackoffOverride has replaced or raised the backoff
                               \* since it was last set to its initial value
     noConnAt   |-> "",        \* where Run was when the touch goroutine's last SendEvent
                               \* found no connection ("" when it found one)
     skipped    |-> "none",    \* the last frame the read loop of this connection passed
                               \* over: "invoke" for a node.invoke.request, else "other"
     resetFrom4 |-> FALSE,     \* the successful handshake of this connection, or of
                               \* the last one, replaced a backoff of 4 s or more
     mismatch   |-> NoMismatch]  \* the last policy-violation close with reason "device
                               \* token mismatch": the token in memory when it came, and
                               \* whether the connect request after it was built

HistNewConn(h) ==
    [h EXCEPT !.seen = {}, !.stale = FALSE, !.early = FALSE, !.connects = <<>>,
              !.helloOk = FALSE, !.registered = 0, !.recv = 0, !.calls = 0, !.results = 0,
              !.lastInvoke = NoInvoke, !.lastWrite = NoFrame, !.afterErr = 0,
              !.resetFrom4 = FALSE, !.skipped = "none"]

\* When the cycle ends, what was observed of the read loop is dropped.
HistEndConn(h) ==
    [h EXCEPT !.seen = {}, !.stale = FALSE, !.early = FALSE, !.connects = <<>>,
              !.helloOk = FALSE, !.registered = 0, !.recv = 0, !.calls = 0, !.results = 0,
              !.lastInvoke = NoInvoke, !.lastWrite = NoFrame, !.afterErr = 0,
              !.skipped = "none"]

\* ------------------------------------------------------------- pure parts of the client
\* The token file holds {token, savedAtMs}; the save time is left out.
TokenFile(t) == [exists |-> TRUE, json |-> TRUE, token |-> t]

\* A file cut short by a write that failed.
BrokenFile == [exists |-> TRUE, json |-> FALSE]

\* How os.WriteFile ends: done, failed before the file was opened, or failed after
\* the file was truncated.
SaveOutcomes == {"ok", "untouched", "truncated"}

\* A missing file is no token and no error; an unreadable one is an error, and New
\* then starts without a token.
LoadDeviceToken(file) == IF ~file.exists \/ ~file.json THEN "" ELSE file.token

SaveDeviceToken(file, token, io) ==
    CASE io = "ok"        -> TokenFile(token)
      [] io = "untouched" -> file
      [] io = "truncated" -> BrokenFile

ClearDeviceToken(file) == NoFile

nextID(seq) == seq + 1

\* waitBackoff, lines 526-528: the backoff doubles while it is below the cap.
waitBackoff(b) == IF b < BackoffCap THEN b * 2 ELSE b

\* An override that sets the backoff to the target of every typed error.
applyBackoffOverrideSet(err, b) ==
    IF ~err.typed THEN b
    ELSE IF err.backoff <= 0 THEN b
    ELSE err.backoff

\* An override that only ever raises the backoff.
applyBackoffOverrideRaise(err, b) ==
    IF ~err.typed THEN b
    ELSE IF err.backoff <= 0 THEN b
    ELSE IF b < err.backoff THEN err.backoff
    ELSE b

\* applyBackoffOverride, lines 532-548: a shutdown sets the backoff, any other typed
\* error raises it.
applyBackoffOverride(err, b) ==
    IF ~err.typed THEN b
    ELSE IF err.backoff <= 0 THEN b
    ELSE IF err.kind = "shutdown" THEN err.backoff
    ELSE IF b < err.backoff THEN err.backoff
    ELSE b

\* handleCloseError: the error handed on, and whether clearDeviceToken is called.
\* The reason is lower-cased before the searches; a reason is the set of the
\* phrases it contains.
handleCloseError(e) ==
    LET plain == PlainErr("read", "")
        wait  == backoffError("read", PairingBackoff)
    IN IF e.kind # "close" THEN [err |-> plain, clear |-> FALSE]
       ELSE IF e.code # ClosePolicyViolation THEN [err |-> plain, clear |-> FALSE]
       ELSE IF "pairing required" \in e.reason THEN [err |-> wait, clear |-> FALSE]
       ELSE IF "device identity required" \in e.reason THEN [err |-> wait, clear |-> FALSE]
       ELSE [err |-> plain, clear |-> "device token mismatch" \in e.reason]

\* A clearDeviceToken that removes the file and keeps the token in memory.
clearDeviceTokenFileOnly(token, file, hasPath) ==
    IF ~hasPath THEN [token |-> token, file |-> file]
    ELSE [token |-> token, file |-> ClearDeviceToken(file)]

\* clearDeviceToken: the token in memory and the token file afterwards.
clearDeviceToken(token, file, hasPath) ==
    IF token = "" /\ ~hasPath THEN [token |-> token, file |-> file]
    ELSE IF ~hasPath THEN [token |-> "", file |-> file]
    ELSE [token |-> "", file |-> ClearDeviceToken(file)]

\* A registerNode that takes up every challenge.
AcceptAnyChallenge(n, last) == TRUE

\* registerNode, line 279: a challenge is taken up unless its nonce is empty or the last one.
AcceptChallenge(n, last) == ~(n = "" \/ n = last)

\* A registerNode that takes any res for the answer to its connect request.
ResMatchesAny(f, sent, cid) == TRUE

\* registerNode, line 302: the res answers the connect request.
ResMatches(f, sent, cid) == sent /\ f.id = cid

\* A registerNode that keeps the issued token in memory and never saves it.
AdoptTokenInMemory(auth, token, file, hasPath, io) ==
    IF auth # NoAuth /\ auth # ""
    THEN [token |-> auth, file |-> file]
    ELSE [token |-> token, file |-> file]

\* registerNode, lines 318-325: the token adopted from hello-ok.
AdoptToken(auth, token, file, hasPath, io) ==
    IF auth # NoAuth /\ auth # ""
    THEN [token |-> auth, file |-> IF hasPath THEN SaveDeviceToken(file, auth, io) ELSE file]
    ELSE [token |-> token, file |-> file]

\* A selectConnectAuth that sends the configured password alone whenever there is
\* one, whether or not a device token is held.
selectConnectAuthPasswordFirst(auth, token) ==
    IF ~auth.nil /\ auth.Token # "" THEN [auth |-> auth, token |-> auth.Token]
    ELSE IF ~auth.nil /\ auth.Password # "" THEN [auth |-> auth, token |-> ""]
    ELSE IF token # "" THEN [auth |-> ConnectAuth(token, ""), token |-> token]
    ELSE [auth |-> NilAuth, token |-> ""]

\* selectConnectAuth, lines 550-577: the auth block of the connect request (auth is
\* c.connectAuth, token c.deviceToken) and the token that is signed.
selectConnectAuth(auth, token) ==
    IF ~auth.nil /\ auth.Token # "" THEN [auth |-> auth, token |-> auth.Token]
    ELSE IF ~auth.nil /\ auth.Password # "" /\ token = "" THEN [auth |-> auth, token |-> ""]
    ELSE IF token # ""
        THEN [auth |-> ConnectAuth(token, IF auth.nil THEN "" ELSE auth.Password),
              token |-> token]
    ELSE IF ~auth.nil /\ auth.Password # "" THEN [auth |-> auth, token |-> ""]
    ELSE [auth |-> NilAuth, token |-> ""]

\* gateway.New, lines 96-102: c.connectAuth.
connectAuth(conf) ==
    IF conf.authToken # "" \/ conf.authPassword # ""
    THEN ConnectAuth(conf.authToken, conf.authPassword) ELSE NilAuth

\* buildConnectRequest, lines 579-627: the connect request with its nonce, its auth
\* and the token signed with the device identity.
buildConnectRequest(n, id) ==
    [RequestFrame(id, "connect") EXCEPT
        !.nonce = n,
        !.auth = selectConnectAuth(connectAuth(cfg), deviceToken).auth,
        !.signedToken = selectConnectAuth(connectAuth(cfg), deviceToken).token]

\* SendEvent, lines 181-186: the req frame of an event; ev is params.event, if any.
SendEvent(id, method, ev) == [RequestFrame(id, method) EXCEPT !.event = ev]

\* Whether the client has registered before, and whether OnResume has run since the
\* last registration (or since the start).
RHistInit == [registered |-> FALSE, resumed |-> FALSE]

\* main, newReadyState (lines 418-420) and readyState.NextReason (lines 428-436): the
\* reason to report, and the reason kept for the next call.
newReadyState == "boot"

NextReasonKeep(r) == [reason |-> r, next |-> r]

NextReason(r) == [reason |-> r, next |-> IF r # "reconnect" THEN "reconnect" ELSE r]

\* main, sendNodeReady (lines 438-450): the node.ready event, without its timestamp.
sendNodeReady(id, r) == [SendEvent(id, "node.event", "node.ready") EXCEPT !.reason = r]

\* A parseInvokePayload that asks only for a payload that decodes and has an id.
parseInvokePayloadLax(p) ==
    IF ~p.valid THEN [ok |-> FALSE]
    ELSE IF p.id = "" THEN [ok |-> FALSE]
    ELSE [ok |-> TRUE, RequestID |-> p.id, NodeID |-> p.nodeId, Command |-> p.command]

\* parseInvokePayload, lines 445-472, without the arguments of the command.
parseInvokePayload(p) ==
    IF ~p.valid THEN [ok |-> FALSE]
    ELSE IF p.id = "" \/ p.nodeId = "" \/ p.command = "" THEN [ok |-> FALSE]
    ELSE [ok |-> TRUE, RequestID |-> p.id, NodeID |-> p.nodeId, Command |-> p.command]

\* A result that says ok whatever the handler returned.
sendInvokeResultOk(req, herr, id) ==
    [RequestFrame(id, "node.invoke.result") EXCEPT
        !.reqId = req.RequestID, !.nodeId = req.NodeID, !.ok = TRUE]

\* sendInvokeResult, lines 422-443.  The handlers of this program return nil or a
\* string as their result (canvas.Handler.HandleInvoke), which json.Marshal takes.
sendInvokeResult(req, herr, id) ==
    [RequestFrame(id, "node.invoke.result") EXCEPT
        !.reqId = req.RequestID, !.nodeId = req.NodeID, !.ok = (herr = ""), !.errMsg = herr]

\* readLoop, lines 372-377: the error a shutdown event ends the read loop with.
ShutdownError(p) ==
    IF ~p.valid THEN PlainErr("payload", "")
    ELSE LET restartMs == IF p.has THEN p.ms ELSE 0
         IN backoffError("shutdown", IF restartMs <= 0 THEN DefaultRestartMs ELSE restartMs)

\* A writeMessage without the mutex.
NoLock(w) == TRUE

\* writeMessage, line 203: the write mutex is free for w to take.
TryLock(w) == writeMu = NoWriter

\* A Run that hands the error of a cycle to its caller.
AfterCycleReturn(err) == "returned"

\* Run, lines 164-171: where Run goes when readLoop or registerNode has returned an error.
AfterCycle(err) == "wait"

\* A closeConn that closes the connection and leaves it stored.
closeConnKeep(c) == c

\* closeConn, lines 509-516: c.conn afterwards.
closeConn(c) == 0

\* A Run that keeps its backoff across a successful handshake.
afterRegisterKeep(b) == b

\* Run, line 158: the backoff once registerNode has returned nil.
afterRegister(b) == InitialBackoff

\* Run, lines 137-139: the top of the loop.
LoopTop == IF ctxCancelled THEN "returned" ELSE "dial"


\* ------------------------------------------------------------- the power manager
\* Durations of the power manager are in seconds.  The clock moves in these steps.
ClockSteps == {15, 30}

\* Manager.IdleTimeout: main sets a number of minutes, or 0 when the configured
\* number is not positive; the field itself may hold a negative duration.
IdleTimeouts == {0 - 60, 0, 60}
Managers     == [SuspendEnabled : BOOLEAN, IdleTimeout : IdleTimeouts]

\* main, newPowerManager (lines 336-357), with idleTimeoutMin = 1.
MainManager == [SuspendEnabled |-> TRUE, IdleTimeout |-> 60]

\* The goroutines that call Suspend: the touch loop on a short press of the power
\* button (main, line 322) and Manager.Run when the idle timer fires (line 130).
Callers == {"button", "timer"}

\* A timer: c says a value waits in its channel (of capacity 1).
NoTimer        == [set |-> FALSE, active |-> FALSE, deadline |-> 0, c |-> FALSE]
NewTimer(t, d) == [set |-> TRUE, active |-> TRUE, deadline |-> t + d, c |-> FALSE]

\* The timer reaches its deadline: it stops and sends on its channel.
Fire(tm) == [tm EXCEPT !.active = FALSE, !.c = TRUE]

\* Manager.ResetIdle and Manager.Run test the same condition (lines 72 and 115).
Disarmed(conf) == ~conf.SuspendEnabled \/ conf.IdleTimeout <= 0

\* Manager.ResetIdle, lines 70-85, at clock time t.  Stop says whether the timer was
\* active; if not, drainTimer empties the channel.
ResetIdle(conf, tm, t) ==
    IF Disarmed(conf) THEN tm
    ELSE IF ~tm.set THEN NewTimer(t, conf.IdleTimeout)
    ELSE [tm EXCEPT !.active = TRUE, !.deadline = t + conf.IdleTimeout,
                    !.c = IF tm.active THEN @ ELSE FALSE]

\* A CompareAndSwap(false, true) that always succeeds.
CompareAndSwapBlind(cur) == TRUE

\* suspending.CompareAndSwap(false, true), line 92: whether it succeeds.
CompareAndSwap(cur) == ~cur

\* A canSuspend that lets the suspend through only after the debounce time.
canSuspendLate(wifi, cmd, lw, t) ==
    /\ ~(wifi \/ cmd)
    /\ lw # 0 => ~(t - lw <= Debounce)

\* A canSuspend that does not look at the flags.
canSuspendNoFlags(wifi, cmd, lw, t) == lw # 0 => ~(t - lw < Debounce)

\* Manager.canSuspend, lines 144-156, at clock time t.
canSuspend(wifi, cmd, lw, t) ==
    /\ ~(wifi \/ cmd)
    /\ lw # 0 => ~(t - lw < Debounce)

\* A Suspend that releases the flag only on the path that returns nil.
deferredStoreOnSuccess(res) == res # "nil"

\* Manager.Suspend, line 95: defer m.suspending.Store(false), run on every return
\* after the swap.
deferredStore(res) == FALSE

\* A Suspend that goes on to OnResume whatever suspendFunc returns.
afterSleepIgnoreErr(err) == "wake"

\* Manager.Suspend, lines 102-104: suspendFunc has returned.
afterSleep(err) == IF err THEN "done" ELSE "wake"

\* A Run that arms the timer again only when Suspend returned nil.
afterSuspendNilOnly(res) == IF res = "nil" THEN "reset" ELSE "select"

\* Manager.Run, lines 130-131: whatever Suspend returns, ResetIdle comes next.
afterSuspend(res) == "reset"

\* Observations of the power manager.
PHistInit ==
    [log      |-> <<>>,     \* what the Suspend calls in flight have invoked, in order
     busy     |-> FALSE,    \* a flag was set when suspendFunc was last called
     fires    |-> 0,        \* 1: Run has taken a value from the timer's channel
     attempts |-> 0,        \* Suspend calls made by Run since it took that value
     early    |-> FALSE]    \* Run called Suspend before the timer's deadline

NotInSuspend == [pc |-> "idle", res |-> ""]

\* A Manager as main leaves it before any goroutine uses it (lines 153, 175-197).
NewManager(conf) ==
    /\ mgr = conf
    /\ now = ClockStart
    /\ suspending = FALSE
    /\ wifiBusy = FALSE
    /\ commandBusy = FALSE
    /\ lastWakeNano = 0
    /\ idleTimer = NoTimer
    /\ sus = [s \in Callers |-> NotInSuspend]
    /\ mrun = "start"
    /\ phist = PHistInit

\* ------------------------------------------------------------- the canvas
\* An A2UIAction; a component's Action is a pointer, nil for no action.
NoAction == [nil |-> TRUE, type |-> "", payload |-> ""]
Action(t, p) == [nil |-> FALSE, type |-> t, payload |-> p]
ActionA == Action("tap", "pa")
ActionB == Action("open", "pb")

\* An A2UIComponent: type, origin, size, padding, action and children.
Component(t, x, y, w, h, a, kids) ==
    [type |-> t, x |-> x, y |-> y, width |-> w, height |-> h, padding |-> 0,
     action |-> a, children |-> kids]

\* The components pushed: two overlapping buttons, a box that fills the canvas, one
\* that starts on the right edge, one that starts past it, a card with a child
\* that sticks out of it, and a list that stacks two children.
Components ==
    { Component("button", 0, 0, 2, 1, ActionA, <<>>),
      Component("button", 1, 0, 2, 2, ActionB, <<>>),
      Component("box", 0, 0, 0, 0, NoAction, <<>>),
      Component("box", Width, 0, 0, 1, ActionA, <<>>),
      Component("box", Width + 1, 0, 0, 0, ActionB, <<>>),
      Component("card", 1, 1, 1, 1, ActionA,
                <<Component("button", 0, 0, 2, 1, ActionB, <<>>)>>),
      [Component("list", 0, 0, 0, 0, NoAction,
                 <<Component("button", 0, 0, 1, 1, ActionA, <<>>),
                   Component("button", 0, 0, 1, 1, ActionB, <<>>)>>)
         EXCEPT !.padding = 1] }

\* An A2UIPush of one component (DecodeA2UIPush refuses a push without components).
Pushes == [components : {<<c>> : c \in Components}, replace : BOOLEAN]

\* The arguments of a push as JSON: whether they are JSON at all, what unmarshalling
\* them as an A2UIPush gives (components, replace) and what unmarshalling them as an
\* A2UIComponent gives (a component, whose type is "" when the JSON names none).
NoComponent == Component("", 0, 0, 0, 0, NoAction, <<>>)
PushPayload(push) ==
    [json |-> TRUE, components |-> push.components, replace |-> push.replace,
     component |-> NoComponent]
ComponentPayload(c) ==
    [json |-> TRUE, components |-> <<>>, replace |-> FALSE, component |-> c]
InvalidPayloads ==
    {[json |-> FALSE, components |-> <<>>, replace |-> FALSE, component |-> NoComponent],
     [json |-> TRUE, components |-> <<>>, replace |-> TRUE, component |-> NoComponent]}

\* DecodeA2UIPush (a2ui_test.go, lines 116-126): the push, or the error.
DecodeA2UIPush(data) ==
    IF data.json /\ Len(data.components) > 0
        THEN [err |-> "", push |-> [components |-> data.components, replace |-> data.replace]]
    ELSE IF data.json /\ data.component.type # ""
        THEN [err |-> "", push |-> [components |-> <<data.component>>, replace |-> FALSE]]
    ELSE [err |-> "invalid A2UI payload"]

\* DecodeA2UIJSONL (a2ui_test.go, lines 128-146): the pushes of the lines, or the
\* error of the first line that does not decode.
RECURSIVE DecodeA2UIJSONL(_)
DecodeA2UIJSONL(lines) ==
    IF lines = <<>> THEN [err |-> "", pushes |-> <<>>]
    ELSE LET first == DecodeA2UIPush(Head(lines))
             rest  == DecodeA2UIJSONL(Tail(lines))
         IN IF first.err # "" THEN [err |-> first.err, pushes |-> <<>>]
            ELSE IF rest.err # "" THEN rest
            ELSE [err |-> "", pushes |-> <<first.push>> \o rest.pushes]

\* unwrapStringArgs (part_003, lines 126-138): the string of the arguments, or the error.
unwrapStringArgs(args) ==
    IF args.string THEN [err |-> "", lines |-> args.lines]
    ELSE [err |-> "invalid JSONL args", lines |-> <<>>]

\* An ApplyPush that appends whatever the replace flag says.
ApplyPushAppend(components, push) == components \o push.components

\* A2UIState.ApplyPush (a2ui_test.go, lines 98-106).
ApplyPush(components, push) ==
    IF push.replace THEN push.components ELSE components \o push.components

\* for _, push := range pushes { h.state.ApplyPush(push) }
RECURSIVE ApplyPushes(_, _)
ApplyPushes(components, pushes) ==
    IF pushes = <<>> THEN components
    ELSE ApplyPushes(ApplyPush(components, Head(pushes)), Tail(pushes))

\* handleA2UIPush (part_003, lines 73-78): the error returned and the components of
\* the state when present is reached or the error is returned.
handleA2UIPush(components, data) ==
    LET d == DecodeA2UIPush(data)
    IN IF d.err # "" THEN [err |-> d.err, components |-> components]
       ELSE [err |-> "", components |-> ApplyPush(components, d.push)]

\* A handleA2UIPushJSONL that applies each line as soon as it has decoded it.
RECURSIVE applyLines(_, _)
applyLines(components, lines) ==
    IF lines = <<>> THEN [err |-> "", components |-> components]
    ELSE LET d == DecodeA2UIPush(Head(lines))
         IN IF d.err # "" THEN [err |-> d.err, components |-> components]
            ELSE applyLines(ApplyPush(components, d.push), Tail(lines))
handleA2UIPushJSONLByLine(components, args) ==
    LET u == unwrapStringArgs(args)
    IN IF u.err # "" THEN [err |-> u.err, components |-> components]
       ELSE applyLines(components, u.lines)

\* handleA2UIPushJSONL (part_003, lines 82-93): the same for the lines of a JSONL string.
handleA2UIPushJSONL(components, args) ==
    LET u == unwrapStringArgs(args)
        d == DecodeA2UIJSONL(u.lines)
    IN IF u.err # "" THEN [err |-> u.err, components |-> components]
       ELSE IF d.err # "" THEN [err |-> d.err, components |-> components]
       ELSE [err |-> "", components |-> ApplyPushes(components, d.pushes)]

\* image.Rect: the rectangle with its corners in order.
Rect(x0, y0, x1, y1) ==
    [minX |-> IF x0 <= x1 THEN x0 ELSE x1, maxX |-> IF x0 <= x1 THEN x1 ELSE x0,
     minY |-> IF y0 <= y1 THEN y0 ELSE y1, maxY |-> IF y0 <= y1 THEN y1 ELSE y0]
Dx(rect) == rect.maxX - rect.minX
Dy(rect) == rect.maxY - rect.minY

\* Whether the point is in the rectangle (Renderer.HitTest, line 141).
Contains(rect, x, y) ==
    x >= rect.minX /\ x < rect.maxX /\ y >= rect.minY /\ y < rect.maxY

\* The points touched: on the canvas, and on its right and bottom edge.
Points == (0..Width) \X (0..Height)

\* The pixels of the image and the gray of a cleared one.
Pixels == (0..(Width - 1)) \X (0..(Height - 1))
White == 255
Blank == [p \in Pixels |-> White]

\* Renderer.renderComponent, lines 49-58: the rectangle of comp at the offset.
componentRect(comp, offsetX, offsetY) ==
    LET x == offsetX + comp.x
        y == offsetY + comp.y
        width == IF comp.width <= 0 THEN Width - x ELSE comp.width
        height == IF comp.height <= 0 THEN Height - y ELSE comp.height
    IN  Rect(x, y, x + width, y + height)

\* Renderer.renderComponent, lines 60-71, and strokeRect: draw.Draw fills the part of
\* the rectangle that is in the image, then the four edges are drawn.  Style is nil.
drawBox(img, rect) ==
    [p \in Pixels |->
        IF \/ p[1] >= rect.minX /\ p[1] < rect.maxX /\ p[2] \in {rect.minY, rect.maxY - 1}
           \/ p[2] >= rect.minY /\ p[2] < rect.maxY /\ p[1] \in {rect.minX, rect.maxX - 1}
        THEN 80
        ELSE IF Contains(rect, p[1], p[2]) THEN 230 ELSE img[p]]

\* Renderer.renderComponent, lines 79-81: r is the renderer, its image and targets.
appendTarget(r, rect, comp) ==
    IF ~comp.action.nil /\ Dx(rect) > 0 /\ Dy(rect) > 0
    THEN [r EXCEPT !.targets = Append(@, [rect |-> rect, action |-> comp.action])]
    ELSE r

\* Renderer.renderComponent, lines 48-103.  kids are the children not yet rendered
\* and cursorY the list cursor.
RECURSIVE renderComponent(_, _, _, _)
RECURSIVE renderChildren(_, _, _, _, _, _)
renderChildren(r, comp, kids, x, y, cursorY) ==
    IF kids = <<>> THEN r
    ELSE LET child == Head(kids)
             placed == IF comp.type = "list"
                       THEN [child EXCEPT !.x = @ + comp.padding,
                                          !.y = IF @ = 0 THEN cursorY - y ELSE @]
                       ELSE child
         IN  renderChildren(renderComponent(r, placed, x, y), comp, Tail(kids), x, y,
                            cursorY + child.height + comp.padding)

renderComponent(r, comp, offsetX, offsetY) ==
    LET rect == componentRect(comp, offsetX, offsetY)
        drawn == IF comp.type \in {"box", "card", "button"}
                 THEN [r EXCEPT !.image = drawBox(@, rect)] ELSE r
        x == offsetX + comp.x
        y == offsetY + comp.y
    IN  renderChildren(appendTarget(drawn, rect, comp), comp, comp.children, x, y,
                       y + comp.padding)

\* A Clear that fills the image with gray 0 instead of 255.
ClearBlack == [image |-> [p \in Pixels |-> 0], targets |-> <<>>]

\* Renderer.Clear, lines 36-39.
Clear == [image |-> Blank, targets |-> <<>>]

\* Renderer.Render, lines 41-46, from after Clear to its end.
RECURSIVE Render(_, _)
Render(r, components) ==
    IF components = <<>> THEN r
    ELSE Render(renderComponent(r, Head(components), 0, 0), Tail(components))

\* The hit test that returns the last target that contains the point.
RECURSIVE HitTestLast(_, _, _)
HitTestLast(targets, x, y) ==
    IF targets = <<>> THEN NoAction
    ELSE IF Contains(targets[Len(targets)].rect, x, y) THEN targets[Len(targets)].action
    ELSE HitTestLast(SubSeq(targets, 1, Len(targets) - 1), x, y)

\* Renderer.HitTest, lines 138-146.
RECURSIVE HitTest(_, _, _)
HitTest(targets, x, y) ==
    IF targets = <<>> THEN NoAction
    ELSE IF Contains(Head(targets).rect, x, y) THEN Head(targets).action
    ELSE HitTest(Tail(targets), x, y)

\* eink.Update and Framebuffer.Refresh (refresh.go, lines 48-84): the update mode
\* and the waveform of the ioctl.
UpdateModePartial == 0
UpdateModeFull    == 1
WaveformModeA2    == 4
WaveformModeAuto  == 257
Update(full, fast) == [Full |-> full, Fast |-> fast, Waveform |-> 0]
NoRefresh == [updateMode |-> 0 - 1, waveform |-> 0 - 1]
Refresh(update) ==
    [updateMode |-> IF ~update.Full THEN UpdateModePartial ELSE UpdateModeFull,
     waveform |-> IF update.Waveform # 0 THEN update.Waveform
                  ELSE IF update.Fast THEN WaveformModeA2 ELSE WaveformModeAuto]

NotRendering == [pc |-> "idle", todo |-> <<>>, partial |-> FALSE]
NoTouch == [x |-> 0 - 1, y |-> 0 - 1, calls |-> <<>>]

\* canvas.NewHandler and canvas.NewRenderer: no components, no hit targets, an image
\* not yet cleared (all 0), the sender as given.  chist keeps the hit targets of the
\* last finished render, what the last hit test saw (nothing yet, a whole list, a
\* list in between, or a torn one), the pushes applied to the state on its own and
\* the last command handled.
NewHandler(s) ==
    /\ scene = <<>>
    /\ hitTargets = <<>>
    /\ image = [p \in Pixels |-> 0]
    /\ fbUpdate = NoRefresh
    /\ sender = s
    /\ touch = NoTouch
    /\ render = NotRendering
    /\ chist = [prev |-> <<>>, seen |-> "none", pushes |-> <<>>, cmd |-> "", err |-> "", failed |-> ""]


\* ------------------------------------------------------------- the Run goroutine
Idle == [st |-> "idle", frame |-> NoFrame, conn |-> 0]
Dead == [st |-> "dead", frame |-> NoFrame, conn |-> 0]
Ready(f, c) == [st |-> "ready", frame |-> f, conn |-> c]

\* close(done) and ctx.Done(): a pingLoop waiting in its select returns; one that is
\* writing returns when the write is over.
StopPingers(w, which) ==
    [x \in Writers |-> IF x \in which /\ w[x].st = "idle" THEN Dead ELSE w[x]]

\* gateway.New, and what the Run goroutine has before Run is called; the auth token
\* and the password of the configuration are among those given.
New(authTokens, authPasswords) ==
    /\ cfg \in [dialer : BOOLEAN, onInvoke : BOOLEAN, deviceTokenPath : BOOLEAN,
                authToken : authTokens, authPassword : authPasswords]
    /\ tokenFile \in {NoFile, TokenFile(StoredToken)}
    /\ cfg.deviceTokenPath \/ tokenFile = NoFile
    /\ deviceToken = (IF cfg.deviceTokenPath THEN LoadDeviceToken(tokenFile) ELSE "")
    /\ ctxCancelled = FALSE
    /\ pc = "start"
    /\ conn = 0
    /\ dials = 0
    /\ backoff = 0
    /\ timer = 0
    /\ lastErr = NoErr
    /\ nonce = ""
    /\ connectSent = FALSE
    /\ connectID = NoID
    /\ requestSeq = 0
    /\ writeMu = NoWriter
    /\ wr = [w \in Writers |-> IF w \in Pingers THEN Dead ELSE Idle]
    /\ frames = 0
    /\ sends = 0
    /\ hist = HistInit

\* The client as main configures it, with no auth token and no password.
NewClient == New({""}, {""})

\* The process as main has built it, before its goroutines run.
Init ==
    /\ NewClient
    /\ reason = newReadyState
    /\ rhist = RHistInit
    /\ NewManager(MainManager)
    /\ NewHandler(TRUE)

\* Run, lines 129-139: the checks of the configuration, then the first pass of the loop.
RunStart ==
    /\ pc = "start"
    /\ IF ~cfg.dialer
         THEN pc' = "returned" /\ hist' = [hist EXCEPT !.runErr = "gateway: dialer required"]
                 /\ backoff' = backoff
         ELSE IF ~cfg.onInvoke
         THEN pc' = "returned" /\ backoff' = backoff
                 /\ hist' = [hist EXCEPT !.runErr = "gateway: invoke handler required"]
         ELSE /\ backoff' = InitialBackoff
              /\ pc' = LoopTop
              /\ hist' = [hist EXCEPT !.runErr = IF ctxCancelled THEN "ctx" ELSE ""]
    /\ UNCHANGED <<pvars, cvars, rvars, cfg, ctxCancelled, conn, dials, timer, lastErr, deviceToken, tokenFile,
                   nonce, connectSent, connectID, requestSeq, writeMu, wr, frames, sends>>

\* The root context is cancelled (a signal, or a long press of the power button).
Cancel ==
    /\ ~ctxCancelled
    /\ ctxCancelled' = TRUE
    /\ wr' = StopPingers(wr, Pingers)
    /\ UNCHANGED <<pvars, cvars, rvars, cfg, pc, conn, dials, backoff, timer, lastErr, deviceToken, tokenFile,
                   nonce, connectSent, connectID, requestSeq, writeMu, frames, sends, hist>>

\* Run, lines 140-147: connect fails; waitBackoff starts its timer.
DialFail ==
    /\ pc = "dial"
    /\ pc' = "wait"
    /\ timer' = backoff
    /\ lastErr' = PlainErr("dial", "")
    /\ UNCHANGED <<pvars, cvars, rvars, cfg, ctxCancelled, conn, dials, backoff, deviceToken, tokenFile, nonce,
                   connectSent, connectID, requestSeq, writeMu, wr, frames, sends, hist>>

\* Run, line 148, and registerNode, lines 229-251: the connection is stored and the
\* handshake waits for its first frame.
DialOK ==
    /\ pc = "dial"
    /\ ~ctxCancelled
    /\ dials < MaxConns
    /\ dials' = dials + 1
    /\ conn' = dials + 1
    /\ nonce' = ""
    /\ connectSent' = FALSE
    /\ connectID' = NoID
    /\ frames' = 0
    /\ pc' = "handshake"
    /\ hist' = HistNewConn(hist)
    /\ UNCHANGED <<pvars, cvars, rvars, cfg, ctxCancelled, backoff, timer, lastErr, deviceToken, tokenFile,
                   requestSeq, writeMu, wr, sends>>

\* The locals of registerNode (lines 233-235) and the number of frames read on the
\* connection; they are gone when the connection is.
Locals(n, sent, id, fr) ==
    /\ nonce' = n
    /\ connectSent' = sent
    /\ connectID' = id
    /\ frames' = fr

\* Run, lines 150-156 and 165-171: closeConn, applyBackoffOverride, and waitBackoff
\* starts its timer.  readLoop's deferred close(done) stops the pingLoop.
EndCycle(err, h, w) ==
    /\ conn' = closeConn(conn)
    /\ Locals("", FALSE, NoID, 0)
    /\ backoff' = applyBackoffOverride(err, backoff)
    /\ timer' = applyBackoffOverride(err, backoff)
    /\ lastErr' = err
    /\ pc' = AfterCycle(err)
    /\ hist' = [HistEndConn(h) EXCEPT
                    !.overridden = @ \/ (err.typed /\ err.backoff > 0),
                    !.runErr = IF AfterCycle(err) = "returned" THEN "cycle" ELSE @]
    /\ wr' = StopPingers([w EXCEPT ![RunW] = Idle], {PingW(conn)})

\* The next pass of a read loop: ctx.Err() ends it, otherwise ReadMessage is called.
NextRead(loop, h, w, n, sent, id, fr) ==
    IF ctxCancelled
    THEN EndCycle(PlainErr("ctx", ""), h, w)
    ELSE /\ pc' = loop
         /\ Locals(n, sent, id, fr)
         /\ hist' = h
         /\ wr' = [w EXCEPT ![RunW] = Idle]
         /\ UNCHANGED <<conn, backoff, timer, lastErr>>

\* waitBackoff, lines 524-529: the timer fires.
WaitFire ==
    /\ pc = "wait"
    /\ backoff' = waitBackoff(backoff)
    /\ timer' = 0
    /\ lastErr' = NoErr
    /\ pc' = LoopTop
    /\ hist' = [hist EXCEPT !.runErr = IF ctxCancelled THEN "ctx" ELSE @]
    /\ UNCHANGED <<pvars, cvars, rvars, cfg, ctxCancelled, conn, dials, deviceToken, tokenFile,
                   nonce, connectSent, connectID, requestSeq, writeMu, wr, frames, sends>>

\* waitBackoff, lines 521-523: the context is done first; Run returns its error.
WaitCancel ==
    /\ pc = "wait"
    /\ ctxCancelled
    /\ pc' = "returned"
    /\ timer' = 0
    /\ lastErr' = NoErr
    /\ hist' = [hist EXCEPT !.runErr = "ctx"]
    /\ UNCHANGED <<pvars, cvars, rvars, cfg, ctxCancelled, conn, dials, backoff, deviceToken,
                   tokenFile, nonce, connectSent, connectID, requestSeq, writeMu, wr,
                   frames, sends>>


\* ------------------------------------------------------------- the handshake
IsEvent(f, name) == f.json /\ f.type = "event" /\ f.event = name
IsReq(f, m)      == f.json /\ f.type = "req" /\ f.method = m
IsRes(f)         == f.json /\ f.type = "res"

\* A handshake that sends a connect for every new nonce, sent or not.
registerNodeStepResend(f, last, sent, cid) ==
    IF IsEvent(f, "connect.challenge")
    THEN IF f.payload.valid /\ AcceptChallenge(f.payload.nonce, last)
         THEN [do |-> "connect", nonce |-> f.payload.nonce]
         ELSE [do |-> "skip", nonce |-> last]
    ELSE IF ~IsRes(f) THEN [do |-> "skip", nonce |-> last]
    ELSE IF ~ResMatches(f, sent, cid) THEN [do |-> "skip", nonce |-> last]
    ELSE IF ~f.ok
        THEN [do |-> "fail", nonce |-> last,
              err |-> PlainErr("rejected", IF f.errMsg # "" THEN f.errMsg
                                           ELSE "gateway: connect rejected")]
    ELSE IF ~f.payload.valid
        THEN [do |-> "fail", nonce |-> last, err |-> PlainErr("payload", "")]
    ELSE IF f.payload.type # "hello-ok"
        THEN [do |-> "fail", nonce |-> last,
              err |-> PlainErr("handshake", "gateway: unexpected handshake payload")]
    ELSE [do |-> "ready", nonce |-> last, auth |-> f.payload.auth]

\* A registerNode that takes every accepted res for hello-ok, whatever its type.
registerNodeStepAnyType(f, last, sent, cid) ==
    IF IsEvent(f, "connect.challenge")
    THEN IF f.payload.valid /\ AcceptChallenge(f.payload.nonce, last)
         THEN [do |-> IF sent THEN "skip" ELSE "connect", nonce |-> f.payload.nonce]
         ELSE [do |-> "skip", nonce |-> last]
    ELSE IF ~IsRes(f) THEN [do |-> "skip", nonce |-> last]
    ELSE IF ~ResMatches(f, sent, cid) THEN [do |-> "skip", nonce |-> last]
    ELSE IF ~f.ok
        THEN [do |-> "fail", nonce |-> last,
              err |-> PlainErr("rejected", IF f.errMsg # "" THEN f.errMsg
                                           ELSE "gateway: connect rejected")]
    ELSE IF ~f.payload.valid
        THEN [do |-> "fail", nonce |-> last, err |-> PlainErr("payload", "")]
    ELSE [do |-> "ready", nonce |-> last, auth |-> f.payload.auth]

\* registerNode, lines 257-326: what one frame makes the handshake do.
registerNodeStep(f, last, sent, cid) ==
    IF IsEvent(f, "connect.challenge")
    THEN IF f.payload.valid /\ AcceptChallenge(f.payload.nonce, last)
         THEN [do |-> IF sent THEN "skip" ELSE "connect", nonce |-> f.payload.nonce]
         ELSE [do |-> "skip", nonce |-> last]
    ELSE IF ~IsRes(f) THEN [do |-> "skip", nonce |-> last]
    ELSE IF ~ResMatches(f, sent, cid) THEN [do |-> "skip", nonce |-> last]
    ELSE IF ~f.ok
        THEN [do |-> "fail", nonce |-> last,
              err |-> PlainErr("rejected", IF f.errMsg # "" THEN f.errMsg
                                           ELSE "gateway: connect rejected")]
    ELSE IF ~f.payload.valid
        THEN [do |-> "fail", nonce |-> last, err |-> PlainErr("payload", "")]
    ELSE IF f.payload.type # "hello-ok"
        THEN [do |-> "fail", nonce |-> last,
              err |-> PlainErr("handshake", "gateway: unexpected handshake payload")]
    ELSE [do |-> "ready", nonce |-> last, auth |-> f.payload.auth]

\* The res that completes the handshake, as the gateway sees it.
IsHelloOk(f) ==
    /\ IsRes(f) /\ connectSent /\ f.id = connectID
    /\ f.ok /\ f.payload.valid /\ f.payload.type = "hello-ok"

\* registerNode reads a frame.  On hello-ok it returns (its locals are gone), Run
\* resets the backoff and calls OnRegistered, which sends node.ready with the next
\* reason of readyState (main, lines 167-169).
HSFrame(f, io) ==
    /\ pc = "handshake"
    /\ frames < MaxFrames
    /\ LET r == registerNodeStep(f, nonce, connectSent, connectID)
           n == IF IsEvent(f, "connect.challenge") /\ f.payload.valid
                THEN f.payload.nonce ELSE ""
           h == [hist EXCEPT !.seen = @ \cup ({n} \ {""}),
                             !.stale = @ \/ (IsEvent(f, "connect.challenge") /\ f.payload.valid
                                              /\ (n = "" \/ n \in hist.seen)),
                             !.early = @ \/ f \in GoodInvokeFrames,
                             !.helloOk = @ \/ IsHelloOk(f)]
           t == IF r.do = "ready"
                THEN AdoptToken(r.auth, deviceToken, tokenFile, cfg.deviceTokenPath, io)
                ELSE [token |-> deviceToken, file |-> tokenFile]
       IN /\ deviceToken' = t.token
          /\ tokenFile' = t.file
          /\ reason' = (IF r.do = "ready" THEN NextReason(reason).next ELSE reason)
          /\ rhist' = (IF r.do = "ready" THEN [registered |-> TRUE, resumed |-> FALSE]
                        ELSE rhist)
          /\ CASE r.do = "connect" ->
                    /\ requestSeq' = nextID(requestSeq)
                    /\ wr' = [wr EXCEPT ![RunW] =
                                Ready(buildConnectRequest(r.nonce, nextID(requestSeq)), conn)]
                    /\ pc' = "hs_write"
                    /\ Locals(r.nonce, connectSent, connectID, frames + 1)
                    /\ hist' = [h EXCEPT !.connects =
                                    Append(@, [nonce |-> r.nonce,
                                               fresh |-> r.nonce # "" /\ r.nonce \notin hist.seen]),
                                         !.mismatch =
                                    IF @.step = "closed" THEN [@ EXCEPT !.step = "connect"]
                                    ELSE NoMismatch]
                    /\ UNCHANGED <<conn, backoff, timer, lastErr>>
               [] r.do = "ready" ->
                    /\ requestSeq' = nextID(requestSeq)
                    /\ wr' = [wr EXCEPT ![RunW] =
                                Ready(sendNodeReady(nextID(requestSeq),
                                                    NextReason(reason).reason), conn)]
                    /\ pc' = "reg_write"
                    /\ Locals("", FALSE, NoID, frames + 1)
                    /\ backoff' = afterRegister(backoff)
                    /\ hist' = [h EXCEPT !.registered = @ + 1, !.seen = {}, !.stale = FALSE,
                                          !.overridden = FALSE, !.resetFrom4 = (backoff >= 4 * InitialBackoff)]
                    /\ UNCHANGED <<conn, timer, lastErr>>
               [] r.do = "fail" ->
                    /\ EndCycle(r.err, h, wr)
                    /\ UNCHANGED requestSeq
               [] r.do = "skip" ->
                    /\ NextRead("handshake", h, wr, r.nonce, connectSent, connectID,
                                frames + 1)
                    /\ UNCHANGED requestSeq
    /\ UNCHANGED <<pvars, cvars, cfg, ctxCancelled, dials, writeMu, sends>>

\* A policy-violation close whose reason is "device token mismatch".
IsMismatchClose(e) ==
    /\ e.kind = "close"
    /\ e.code = ClosePolicyViolation
    /\ e.reason = {"device token mismatch"}

\* ReadMessage fails: handleCloseError, then the cycle ends (registerNode, line 254;
\* readLoop, line 344).
ReadErr(e) ==
    /\ pc \in {"handshake", "read"}
    /\ LET r == handleCloseError(e)
           t == IF r.clear
                THEN clearDeviceToken(deviceToken, tokenFile, cfg.deviceTokenPath)
                ELSE [token |-> deviceToken, file |-> tokenFile]
       IN /\ deviceToken' = t.token
          /\ tokenFile' = t.file
          /\ EndCycle(r.err, [hist EXCEPT !.mismatch =
                                    IF IsMismatchClose(e)
                                    THEN [step |-> "closed", token |-> deviceToken]
                                    ELSE NoMismatch], wr)
    /\ UNCHANGED <<pvars, cvars, rvars, cfg, ctxCancelled, dials, requestSeq, writeMu, sends>>


\* ------------------------------------------------------------- the read loop
\* A read loop that knows the invoke request only as an event.
readLoopStepEventsOnly(f) ==
    IF IsEvent(f, "node.invoke.request")
        THEN [do |-> "invoke", form |-> "event", frameId |-> NoID,
              req |-> parseInvokePayload(f.payload)]
    ELSE IF IsEvent(f, "shutdown")
        THEN [do |-> "fail", err |-> ShutdownError(f.payload)]
    ELSE [do |-> "skip"]

\* A read loop that takes a frame it cannot decode for a transport error.
readLoopStepStrict(f) ==
    IF ~f.json THEN [do |-> "fail", err |-> PlainErr("read", "")]
    ELSE IF IsEvent(f, "node.invoke.request")
        THEN [do |-> "invoke", form |-> "event", frameId |-> NoID,
              req |-> parseInvokePayload(f.payload)]
    ELSE IF IsEvent(f, "shutdown")
        THEN [do |-> "fail", err |-> ShutdownError(f.payload)]
    ELSE IF IsReq(f, "node.invoke.request")
        THEN [do |-> "invoke", form |-> "req", frameId |-> f.id,
              req |-> parseInvokePayload(f.params)]
    ELSE [do |-> "skip"]

\* readLoop, lines 347-397: what one frame makes the read loop do.
readLoopStep(f) ==
    IF IsEvent(f, "node.invoke.request")
        THEN [do |-> "invoke", form |-> "event", frameId |-> NoID,
              req |-> parseInvokePayload(f.payload)]
    ELSE IF IsEvent(f, "shutdown")
        THEN [do |-> "fail", err |-> ShutdownError(f.payload)]
    ELSE IF IsReq(f, "node.invoke.request")
        THEN [do |-> "invoke", form |-> "req", frameId |-> f.id,
              req |-> parseInvokePayload(f.params)]
    ELSE [do |-> "skip"]

\* handleInvoke, lines 417-420: the handler is called (it returns herr) and the result
\* frame is made.
handleInvoke(req, herr, id) == sendInvokeResult(req, herr, id)

\* readLoop reads a frame; herr is what the invoke handler returns if it is called.
RLFrame(f, herr) ==
    /\ pc = "read"
    /\ frames < MaxFrames
    /\ LET r == readLoopStep(f)
           h == [hist EXCEPT !.afterErr = IF @ = 1 THEN 2 ELSE @]
           hv == [h EXCEPT !.recv = IF f \in GoodInvokeFrames THEN @ + 1 ELSE @]
       IN CASE r.do = "invoke" /\ r.req.ok ->
                 /\ requestSeq' = nextID(requestSeq)
                 /\ wr' = [wr EXCEPT ![RunW] =
                             Ready(handleInvoke(r.req, herr, nextID(requestSeq)), conn)]
                 /\ pc' = "rl_write"
                 /\ Locals(nonce, connectSent, connectID, frames + 1)
                 /\ hist' = [hv EXCEPT !.calls = @ + 1,
                                       !.lastInvoke = [form |-> f.type,
                                                       frameId |-> IF f.type = "req" THEN f.id
                                                                   ELSE NoID,
                                                       reqId |-> GoodInvoke.id,
                                                       nodeId |-> GoodInvoke.nodeId,
                                                       herr |-> herr]]
                 /\ UNCHANGED <<conn, backoff, timer, lastErr>>
            [] r.do = "fail" ->
                 /\ EndCycle(r.err, hv, wr)
                 /\ UNCHANGED requestSeq
            [] OTHER ->
                 /\ NextRead("read",
                             [hv EXCEPT !.skipped = IF r.do = "invoke" THEN "invoke"
                                                    ELSE "other"],
                             wr, nonce, connectSent, connectID, frames + 1)
                 /\ UNCHANGED requestSeq
    /\ UNCHANGED <<pvars, cvars, rvars, cfg, ctxCancelled, dials, deviceToken, tokenFile, writeMu, sends>>

\* ------------------------------------------------------------- writes
\* writeMessage, lines 203-206: the mutex is taken and WriteMessage is entered.
WriteBegin(w) ==
    /\ wr[w].st = "ready"
    /\ TryLock(w)
    /\ writeMu' = w
    /\ wr' = [wr EXCEPT ![w].st = "writing"]
    /\ hist' = [hist EXCEPT !.touchWrites = IF w = TouchW THEN @ + 1 ELSE @]
    /\ UNCHANGED <<pvars, cvars, rvars, cfg, ctxCancelled, pc, conn, dials, backoff, timer, lastErr, deviceToken,
                   tokenFile, nonce, connectSent, connectID, requestSeq, frames, sends>>

\* A write can succeed only on a connection that is still open.
CanSucceed(w, ok) == ok => wr[w].conn = conn

\* WriteMessage returns to the Run goroutine and the mutex is released: sendConnect
\* (lines 241-246), OnRegistered followed by the start of readLoop (lines 159-164,
\* 331-341), or sendInvokeResult (line 442, its error only logged).
RunWriteEnd(ok) ==
    /\ wr[RunW].st = "writing"
    /\ CanSucceed(RunW, ok)
    /\ writeMu' = NoWriter
    /\ LET f == wr[RunW].frame
           h == [hist EXCEPT !.lastWrite = f]
       IN CASE pc = "hs_write" ->
                 IF ok
                 THEN NextRead("handshake", h, wr, nonce, TRUE, f.id, frames)
                 ELSE EndCycle(PlainErr("write", ""), h, wr)
            [] pc = "reg_write" ->
                 NextRead("read", [h EXCEPT !.early = FALSE],
                          [wr EXCEPT ![PingW(conn)] = Idle],
                          nonce, connectSent, connectID, frames)
            [] pc = "rl_write" ->
                 NextRead("read",
                          [h EXCEPT !.results = @ + 1,
                                    !.afterErr = IF hist.lastInvoke.herr # "" THEN 1 ELSE @],
                          wr, nonce, connectSent, connectID, frames)
    /\ UNCHANGED <<pvars, cvars, rvars, cfg, ctxCancelled, dials, deviceToken, tokenFile, requestSeq, sends>>

\* ------------------------------------------------------------- the touch goroutine
\* SendEvent and sendFrame, lines 176-199, called by Handler.HandleTouch.
TouchSend ==
    /\ wr[TouchW].st = "idle"
    /\ sends < MaxSends
    /\ sends' = sends + 1
    /\ requestSeq' = nextID(requestSeq)
    /\ IF conn = 0
       THEN /\ hist' = [hist EXCEPT !.lastSend = [res |-> "gateway: no connection",
                                                  writes |-> 0],
                                    !.touchWrites = 0, !.noConnAt = pc]
            /\ wr' = wr
       ELSE /\ hist' = [hist EXCEPT !.touchWrites = 0, !.lastSend = NoSend, !.noConnAt = ""]
            /\ wr' = [wr EXCEPT ![TouchW] =
                        Ready(SendEvent(nextID(requestSeq), "canvas.a2ui.action", ""), conn)]
    /\ UNCHANGED <<pvars, cvars, rvars, cfg, ctxCancelled, pc, conn, dials, backoff, timer, lastErr, deviceToken,
                   tokenFile, nonce, connectSent, connectID, writeMu, frames>>

\* WriteMessage returns to the touch goroutine; SendEvent returns its result.
TouchWriteEnd(ok) ==
    /\ wr[TouchW].st = "writing"
    /\ CanSucceed(TouchW, ok)
    /\ writeMu' = NoWriter
    /\ wr' = [wr EXCEPT ![TouchW] = Idle]
    /\ hist' = [hist EXCEPT !.lastSend = [res |-> IF ok THEN "ok" ELSE "write error",
                                          writes |-> hist.touchWrites]]
    /\ UNCHANGED <<pvars, cvars, rvars, cfg, ctxCancelled, pc, conn, dials, backoff, timer, lastErr, deviceToken,
                   tokenFile, nonce, connectSent, connectID, requestSeq, frames, sends>>

\* ------------------------------------------------------------- the ping loop
\* pingLoop, lines 483-484: the ticker fires.
PingTick(k) ==
    /\ wr[PingW(k)].st = "idle"
    /\ wr' = [wr EXCEPT ![PingW(k)] = Ready(PingFrame, k)]
    /\ UNCHANGED <<pvars, cvars, rvars, cfg, ctxCancelled, pc, conn, dials, backoff, timer, lastErr, deviceToken,
                   tokenFile, nonce, connectSent, connectID, requestSeq, writeMu, frames,
                   sends, hist>>

\* pingLoop, lines 484-486 and 478-482: the write returns; the loop ends on an error,
\* on done and on ctx.Done().
PingWriteEnd(k, ok) ==
    /\ wr[PingW(k)].st = "writing"
    /\ CanSucceed(PingW(k), ok)
    /\ writeMu' = NoWriter
    /\ wr' = [wr EXCEPT ![PingW(k)] = IF ~ok \/ conn # k \/ ctxCancelled THEN Dead ELSE Idle]
    /\ UNCHANGED <<pvars, cvars, rvars, cfg, ctxCancelled, pc, conn, dials, backoff, timer, lastErr, deviceToken,
                   tokenFile, nonce, connectSent, connectID, requestSeq, frames, sends, hist>>

\* ------------------------------------------------------------- the specification
HandshakeFrames == ChallengeFrames \cup IgnoredFrames \cup InvokeFrames \cup ResFrames(connectID)
ReadLoopFrames  == InvokeFrames \cup ShutdownFrames \cup IgnoredFrames \cup ChallengeFrames
                       \cup ResFrames(ForeignID)

\* The Run goroutine and the gateway.
Next ==
    \/ RunStart
    \/ Cancel
    \/ DialFail
    \/ DialOK
    \/ WaitFire
    \/ WaitCancel
    \/ \E f \in HandshakeFrames : HSFrame(f, "ok")
    \/ \E f \in TokenFrames(connectID), io \in SaveOutcomes \ {"ok"} : HSFrame(f, io)
    \/ \E e \in ReadErrors : ReadErr(e)
    \/ \E f \in ReadLoopFrames : RLFrame(f, "")
    \/ \E f \in GoodInvokeFrames, herr \in HandlerErrors \ {""} : RLFrame(f, herr)
    \/ WriteBegin(RunW)
    \/ \E ok \in BOOLEAN : RunWriteEnd(ok)

\* The client without a device token path, as main builds it (main, lines 155-170);
\* the dialer and the invoke handler may be missing.
InitNoPath ==
    /\ Init
    /\ ~cfg.deviceTokenPath

Spec == InitNoPath /\ [][Next]_vars

\* The client with or without a device token path, a network that never refuses the
\* dial, and a gateway that sends the frames the tokens depend on: every challenge
\* and every res during the handshake, and every read error.
TokenHandshakeFrames == ChallengeFrames \cup ResFrames(connectID) \cup {Malformed}
TokenReadLoopFrames  == GoodInvokeFrames \cup {Malformed}

NextTokens ==
    \/ RunStart
    \/ Cancel
    \/ DialOK
    \/ WaitFire
    \/ WaitCancel
    \/ \E f \in TokenHandshakeFrames : HSFrame(f, "ok")
    \/ \E f \in TokenFrames(connectID), io \in SaveOutcomes \ {"ok"} : HSFrame(f, io)
    \/ \E e \in ReadErrors : ReadErr(e)
    \/ \E f \in TokenReadLoopFrames : RLFrame(f, "")
    \/ WriteBegin(RunW)
    \/ \E ok \in BOOLEAN : RunWriteEnd(ok)

SpecTokens == Init /\ [][NextTokens]_vars

\* The same client and gateway, with every configuration of the auth token and the
\* password, a dialer and an invoke handler.
ConfigTokens    == {"", "ct"}
ConfigPasswords == {"", "pw"}

InitAuth ==
    /\ New(ConfigTokens, ConfigPasswords)
    /\ cfg.dialer /\ cfg.onInvoke
    /\ reason = newReadyState
    /\ rhist = RHistInit
    /\ NewManager(MainManager)
    /\ NewHandler(TRUE)

SpecAuth == InitAuth /\ [][NextTokens]_vars

\* The goroutines that write: Run, the touch loop and the ping loops, with a gateway
\* that sends what makes the Run goroutine write.
WriterFrames == {EventFrame("connect.challenge", [valid |-> TRUE, nonce |-> "n1"]),
                 EventFrame("node.invoke.request", GoodInvoke)}
                 \cup {ResponseFrame(connectID, TRUE, "",
                                     [valid |-> TRUE, type |-> "hello-ok", auth |-> NoAuth])}

NextWriters ==
    \/ RunStart
    \/ Cancel
    \/ DialOK
    \/ WaitFire
    \/ WaitCancel
    \/ \E f \in WriterFrames : HSFrame(f, "ok")
    \/ ReadErr([kind |-> "plain"])
    \/ \E f \in WriterFrames : RLFrame(f, "")
    \/ \E w \in Writers : WriteBegin(w)
    \/ \E ok \in BOOLEAN : RunWriteEnd(ok)
    \/ TouchSend
    \/ \E ok \in BOOLEAN : TouchWriteEnd(ok)
    \/ \E k \in 1..MaxConns : PingTick(k)
    \/ \E k \in 1..MaxConns, ok \in BOOLEAN : PingWriteEnd(k, ok)

\* The client as main builds it: a dialer, an invoke handler and no device token path.
InitMain ==
    /\ InitNoPath
    /\ cfg.dialer /\ cfg.onInvoke

SpecWriters == InitMain /\ [][NextWriters]_vars

C2_RegisteredAfterHelloOk ==
    /\ hist.registered > 0 => hist.helloOk
    /\ hist.calls > 0 => hist.helloOk /\ hist.registered > 0
    /\ pc \in {"handshake", "hs_write"} =>
          /\ hist.registered = 0
          /\ hist.calls = 0
          /\ hist.results = 0
    /\ pc \in {"reg_write", "read", "rl_write"} => hist.registered = 1

\* OnRegistered is running on a connection whose handshake read a valid invoke
\* request, and the handler was not called.
C2_Witness ==
    /\ pc = "reg_write"
    /\ hist.early
    /\ hist.helloOk
    /\ hist.calls = 0

\* ------------------------------------------------------------- the invoke claims
\* The node.invoke.result that answers the invoke request inv.
ResultFor(f, inv) ==
    /\ f.type = "req"
    /\ f.method = "node.invoke.result"
    /\ f.reqId = inv.reqId
    /\ f.nodeId = inv.nodeId
    /\ f.ok = (inv.herr = "")
    /\ f.id # inv.frameId

\* C3: after Ready every valid node.invoke.request, event or req, makes one call of
\* the invoke handler and then one req frame of method node.invoke.result with the
\* request's id and nodeId and ok = (the handler returned no error); the frame is no
\* res and does not carry the id of the incoming req.
C3_OneResultPerInvoke ==
    /\ pc = "read" =>
          /\ hist.calls = hist.recv
          /\ hist.results = hist.recv
          /\ hist.results > 0 => ResultFor(hist.lastWrite, hist.lastInvoke)
    /\ pc = "rl_write" =>
          /\ hist.calls = hist.recv
          /\ hist.results + 1 = hist.recv
          /\ ResultFor(wr[RunW].frame, hist.lastInvoke)
    /\ pc \in {"handshake", "hs_write", "reg_write"} => hist.recv = 0

\* Two invoke requests were answered on one connection, the last one a req frame.
C3_Witness ==
    /\ pc = "read"
    /\ hist.results = 2
    /\ hist.lastInvoke.form = "req"
    /\ hist.lastWrite.ok

\* C4: an error of the invoke handler is reported as a node.invoke.result with
\* ok=false and the error's text as error.message; the read loop goes on and the
\* connection stays open, so that later frames on it are processed.
C4_HandlerErrorReported ==
    /\ [](pc = "rl_write" /\ hist.lastInvoke.herr # "" =>
            /\ conn # 0
            /\ wr[RunW].frame.method = "node.invoke.result"
            /\ ~wr[RunW].frame.ok
            /\ wr[RunW].frame.errMsg = hist.lastInvoke.herr)
    /\ [][pc = "rl_write" /\ hist.lastInvoke.herr # "" /\ pc' # "rl_write"
                /\ ~ctxCancelled
            => pc' = "read" /\ conn' = conn]_vars
    /\ [](hist.afterErr > 0 => conn # 0 /\ pc \in {"read", "rl_write"})

\* After the report of a handler error another invoke request was read and answered
\* on the same connection.
C4_Witness ==
    /\ pc = "read"
    /\ hist.afterErr = 2
    /\ hist.results = 2
    /\ conn # 0

\* ------------------------------------------------------------- the write claim
\* C5: the writes to the socket (connect, SendEvent frames, invoke results, pings)
\* exclude each other; a SendEvent that succeeds has written once, and one that
\* finds no connection returns an error and has written nothing.
C5_WritesExcludeEachOther ==
    /\ Cardinality({w \in Writers : wr[w].st = "writing"}) <= 1
    /\ \A w \in Writers : wr[w].st = "writing" <=> writeMu = w
    /\ hist.lastSend.res = "ok" => hist.lastSend.writes = 1
    /\ hist.lastSend.res = "gateway: no connection" => hist.lastSend.writes = 0

\* The touch goroutine writes while the Run goroutine and a ping loop wait for the
\* mutex, after a SendEvent that succeeded.
C5_Witness ==
    /\ wr[TouchW].st = "writing"
    /\ wr[RunW].st = "ready"
    /\ \E k \in 1..MaxConns : wr[PingW(k)].st = "ready"
    /\ sends = 2

\* ------------------------------------------------------------- the reconnect claims
InCycle == {"handshake", "hs_write", "reg_write", "read", "rl_write"}

\* C6: with a dialer and an invoke handler Run returns only when the root context is
\* cancelled; a cycle that fails closes the connection and waits the backoff, and
\* the wait is followed by the next dial.
C6_RunReturnsOnlyOnCancel ==
    /\ [](pc = "returned" /\ cfg.dialer /\ cfg.onInvoke => ctxCancelled)
    /\ [](pc = "wait" => conn = 0 /\ timer = backoff)
    /\ [][(pc \in InCycle /\ pc' \notin InCycle) => (pc' = "wait" /\ conn' = 0)]_vars
    /\ [][pc = "dial" /\ pc' # "dial" => pc' \in {"wait", "handshake"}]_vars
    /\ [][pc = "wait" /\ pc' # "wait" =>
            pc' = "dial" \/ (ctxCancelled /\ pc' = "returned")]_vars

\* After a cycle on the first connection failed, Run is dialling again.
C6_Witness ==
    /\ pc = "dial"
    /\ dials = 1
    /\ ~ctxCancelled

\* C7: the backoff starts at 1 s, doubles after each failed cycle and is clamped at
\* 30 s: without an override by a typed error it never exceeds 30 s.
C7_BackoffAtMostCap ==
    /\ pc \notin {"start", "returned"} => backoff >= InitialBackoff \/ hist.overridden
    /\ ~hist.overridden => backoff <= BackoffCap

\* The restart delay a shutdown payload asks for.
RestartMs(p) == IF p.has /\ p.ms > 0 THEN p.ms ELSE DefaultRestartMs

\* C8: a shutdown event with restartExpectedMs = D read after Ready ends the read
\* loop with the typed shutdown error that advertises D (1 s when D is missing or
\* not positive), and the wait before the next dial is D, be the backoff lower or
\* higher.
C8_ShutdownSetsWait ==
    [][pc = "read" => \A f \in ShutdownFrames : (f.payload.valid /\ RLFrame(f, "")) =>
          /\ pc' = "wait"
          /\ conn' = 0
          /\ lastErr' = backoffError("shutdown", RestartMs(f.payload))
          /\ timer' = RestartMs(f.payload)]_vars

\* Run waits 500 ms after a shutdown that asked for it, less than the backoff was.
C8_Witness ==
    /\ pc = "wait"
    /\ lastErr.kind = "shutdown"
    /\ timer = 500
    /\ timer < InitialBackoff

\* ------------------------------------------------------------- the token claims
\* C9: a close with the policy-violation code and a reason that contains "device
\* token mismatch" removes the token file and empties the token in memory; any
\* other read error leaves both as they were.
C9_MismatchClearsToken ==
    [][pc # "wait" /\ pc' = "wait" => \A e \in ReadErrors : ReadErr(e) =>
          IF /\ e.kind = "close"
             /\ e.code = ClosePolicyViolation
             /\ "device token mismatch" \in e.reason
          THEN deviceToken' = "" /\ tokenFile' = NoFile
          ELSE deviceToken' = deviceToken /\ tokenFile' = tokenFile]_vars

Tick(d) ==
    /\ now + d <= MaxClock
    /\ now' = now + d
    /\ UNCHANGED <<gvars, cvars, rvars, mgr, suspending, wifiBusy, commandBusy,
                   lastWakeNano, idleTimer, sus, mrun, phist>>

\* The idle timer reaches its deadline.
TimerFire ==
    /\ idleTimer.set /\ idleTimer.active
    /\ now >= idleTimer.deadline
    /\ idleTimer' = Fire(idleTimer)
    /\ UNCHANGED <<gvars, cvars, rvars, mgr, now, suspending, wifiBusy, commandBusy,
                   lastWakeNano, sus, mrun, phist>>

\* Manager.Run, lines 113-124: without an idle timeout it only waits for the context;
\* otherwise it makes the timer if there is none yet.
ManagerRunStart ==
    /\ mrun = "start"
    /\ IF Disarmed(mgr)
       THEN mrun' = "blocked" /\ idleTimer' = idleTimer
       ELSE /\ mrun' = "select"
            /\ idleTimer' = IF idleTimer.set THEN idleTimer
                            ELSE NewTimer(now, mgr.IdleTimeout)
    /\ UNCHANGED <<gvars, cvars, rvars, mgr, now, suspending, wifiBusy, commandBusy,
                   lastWakeNano, sus, phist>>

\* Manager.Run, lines 116-117 and 127-128: the context is done.
ManagerRunCancel ==
    /\ mrun \in {"blocked", "select"}
    /\ ctxCancelled
    /\ mrun' = "returned"
    /\ UNCHANGED <<gvars, cvars, rvars, mgr, now, suspending, wifiBusy, commandBusy,
                   lastWakeNano, idleTimer, sus, phist>>

\* Manager.Run, line 129: a value is taken from the timer's channel.
ManagerRunFire ==
    /\ mrun = "select"
    /\ idleTimer.c
    /\ idleTimer' = [idleTimer EXCEPT !.c = FALSE]
    /\ mrun' = "call"
    /\ phist' = [phist EXCEPT !.fires = 1, !.attempts = 0]
    /\ UNCHANGED <<gvars, cvars, rvars, mgr, now, suspending, wifiBusy, commandBusy,
                   lastWakeNano, sus>>

\* Manager.Run, line 131: ResetIdle after Suspend has returned, then the select again.
ManagerRunResetIdle ==
    /\ mrun = "reset"
    /\ idleTimer' = ResetIdle(mgr, idleTimer, now)
    /\ mrun' = "select"
    /\ phist' = [phist EXCEPT !.fires = 0, !.attempts = 0, !.early = FALSE]
    /\ UNCHANGED <<gvars, cvars, rvars, mgr, now, suspending, wifiBusy, commandBusy,
                   lastWakeNano, sus>>

\* Where Run is once its call of Suspend has returned res.
Returned(s, res) == IF s = "timer" THEN afterSuspend(res) ELSE mrun

\* Manager.Suspend, lines 87-95: called by the touch loop on a short press, or by Run.
\* It returns at once when suspend is disabled or another Suspend is in flight.
SuspendCall(s) ==
    /\ sus[s].pc = "idle"
    /\ s = "timer" => mrun = "call"
    /\ LET res == IF ~mgr.SuspendEnabled THEN "nil"
                  ELSE IF ~CompareAndSwap(suspending) THEN "ErrSuspendInProgress"
                  ELSE ""
       IN /\ sus' = [sus EXCEPT ![s] = IF res = "" THEN [pc |-> "guard", res |-> ""]
                                       ELSE [pc |-> "idle", res |-> res]]
          /\ suspending' = (IF res = "" THEN TRUE ELSE suspending)
          /\ mrun' = IF res = "" THEN (IF s = "timer" THEN "suspend" ELSE mrun)
                     ELSE Returned(s, res)
    /\ phist' = [phist EXCEPT !.attempts = IF s = "timer" THEN @ + 1 ELSE @,
                              !.early = IF s = "timer" THEN now < idleTimer.deadline ELSE @]
    /\ UNCHANGED <<gvars, cvars, rvars, mgr, now, wifiBusy, commandBusy, lastWakeNano,
                   idleTimer>>

\* Manager.Suspend, lines 96-98: canSuspend.
SuspendGuard(s) ==
    /\ sus[s].pc = "guard"
    /\ sus' = [sus EXCEPT ![s] = IF canSuspend(wifiBusy, commandBusy, lastWakeNano, now)
                                 THEN [pc |-> "onSuspend", res |-> ""]
                                 ELSE [pc |-> "done", res |-> "ErrSuspendBlocked"]]
    /\ UNCHANGED <<gvars, cvars, rvars, mgr, now, suspending, wifiBusy, commandBusy,
                   lastWakeNano, idleTimer, mrun, phist>>

Logged(ev, s) == [phist EXCEPT !.log = Append(@, [ev |-> ev, who |-> s])]

\* Manager.Suspend, lines 99-101: OnSuspend, which runs disable-wifi.sh (main, lines
\* 193-197).
OnSuspend(s) ==
    /\ sus[s].pc = "onSuspend"
    /\ sus' = [sus EXCEPT ![s].pc = "sleep"]
    /\ phist' = Logged("OnSuspend", s)
    /\ UNCHANGED <<gvars, cvars, rvars, mgr, now, suspending, wifiBusy, commandBusy,
                   lastWakeNano, idleTimer, mrun>>

\* Manager.Suspend, line 102: suspendFunc is called.
SleepCall(s) ==
    /\ sus[s].pc = "sleep"
    /\ sus' = [sus EXCEPT ![s].pc = "asleep"]
    /\ phist' = [Logged("sleep", s) EXCEPT !.busy = wifiBusy \/ commandBusy]
    /\ UNCHANGED <<gvars, cvars, rvars, mgr, now, suspending, wifiBusy, commandBusy,
                   lastWakeNano, idleTimer, mrun>>

\* Manager.Suspend, lines 102-105: suspendFunc returns, with an error or after the
\* wake; after a wake the time is stored in lastWakeNano.
SleepReturn(s, err) ==
    /\ sus[s].pc = "asleep"
    /\ IF afterSleep(err) = "done"
       THEN /\ sus' = [sus EXCEPT ![s] = [pc |-> "done", res |-> "sleep error"]]
            /\ UNCHANGED <<lastWakeNano, phist>>
       ELSE /\ sus' = [sus EXCEPT ![s].pc = "onResume"]
            /\ lastWakeNano' = now
            /\ phist' = Logged("lastWake", s)
    /\ UNCHANGED <<gvars, cvars, rvars, mgr, now, suspending, wifiBusy, commandBusy,
                   idleTimer, mrun>>

\* Manager.Suspend, lines 106-107, and main's OnResume, lines 176-178: the reason of
\* the next node.ready is set and the WiFi flag is raised.
OnResumeBegin(s) ==
    /\ sus[s].pc = "onResume"
    /\ sus' = [sus EXCEPT ![s].pc = "linkup"]
    /\ reason' = "wake"
    /\ rhist' = [rhist EXCEPT !.resumed = TRUE]
    /\ wifiBusy' = TRUE
    /\ phist' = Logged("OnResume", s)
    /\ UNCHANGED <<gvars, cvars, mgr, now, suspending, commandBusy, lastWakeNano,
                   idleTimer, mrun>>

\* main's OnResume, lines 180-187: enable-wifi.sh has run and waitForIP has returned
\* (their errors are only logged).
OnResumeLinkUp(s) ==
    /\ sus[s].pc = "linkup"
    /\ sus' = [sus EXCEPT ![s].pc = "refresh"]
    /\ UNCHANGED <<gvars, cvars, rvars, mgr, now, suspending, wifiBusy, commandBusy,
                   lastWakeNano, idleTimer, mrun, phist>>

\* main's OnResume, lines 188-190 and 178: the full refresh, and the deferred
\* SetWiFiConnecting(false) as OnResume returns.
OnResumeRefresh(s) ==
    /\ sus[s].pc = "refresh"
    /\ sus' = [sus EXCEPT ![s].pc = "resetIdle"]
    /\ wifiBusy' = FALSE
    /\ UNCHANGED <<gvars, cvars, rvars, mgr, now, suspending, commandBusy, lastWakeNano,
                   idleTimer, mrun, phist>>

\* Manager.Suspend, lines 109-110.
SuspendResetIdle(s) ==
    /\ sus[s].pc = "resetIdle"
    /\ sus' = [sus EXCEPT ![s] = [pc |-> "done", res |-> "nil"]]
    /\ idleTimer' = ResetIdle(mgr, idleTimer, now)
    /\ phist' = Logged("ResetIdle", s)
    /\ UNCHANGED <<gvars, cvars, rvars, mgr, now, suspending, wifiBusy, commandBusy,
                   lastWakeNano, mrun>>

\* Manager.Suspend, line 95: the deferred suspending.Store(false), and the return.
SuspendReturn(s) ==
    /\ sus[s].pc = "done"
    /\ sus' = [sus EXCEPT ![s].pc = "idle"]
    /\ suspending' = deferredStore(sus[s].res)
    /\ mrun' = Returned(s, sus[s].res)
    /\ phist' = [phist EXCEPT !.log = <<>>, !.busy = FALSE]
    /\ UNCHANGED <<gvars, cvars, rvars, mgr, now, wifiBusy, commandBusy, lastWakeNano,
                   idleTimer>>

\* Manager.SetWiFiConnecting, lines 136-138, called by any goroutine.
SetWiFiConnecting(busy) ==
    /\ wifiBusy # busy
    /\ wifiBusy' = busy
    /\ UNCHANGED <<gvars, cvars, rvars, mgr, now, suspending, commandBusy, lastWakeNano,
                   idleTimer, sus, mrun, phist>>

\* Manager.SetCommandProcessing, lines 140-142, called by the canvas handler on the
\* gateway goroutine around a command.
SetCommandProcessing(busy) ==
    /\ commandBusy # busy
    /\ commandBusy' = busy
    /\ UNCHANGED <<gvars, cvars, rvars, mgr, now, suspending, wifiBusy, lastWakeNano,
                   idleTimer, sus, mrun, phist>>

\* Manager.ResetIdle called on a touch (main, lines 300-302) or on a canvas command.
ResetIdleCall ==
    /\ idleTimer' = ResetIdle(mgr, idleTimer, now)
    /\ UNCHANGED <<gvars, cvars, rvars, mgr, now, suspending, wifiBusy, commandBusy,
                   lastWakeNano, sus, mrun, phist>>

\* The manager with every caller it can have: the touch loop, Run, the canvas handler
\* and the clock; the root context can be cancelled.
NextPower ==
    \/ Cancel
    \/ \E d \in ClockSteps : Tick(d)
    \/ TimerFire
    \/ ManagerRunStart
    \/ ManagerRunCancel
    \/ ManagerRunFire
    \/ ManagerRunResetIdle
    \/ \E s \in Callers : SuspendCall(s)
    \/ \E s \in Callers : SuspendGuard(s)
    \/ \E s \in Callers : OnSuspend(s)
    \/ \E s \in Callers : SleepCall(s)
    \/ \E s \in Callers, err \in BOOLEAN : SleepReturn(s, err)
    \/ \E s \in Callers : OnResumeBegin(s)
    \/ \E s \in Callers : OnResumeLinkUp(s)
    \/ \E s \in Callers : OnResumeRefresh(s)
    \/ \E s \in Callers : SuspendResetIdle(s)
    \/ \E s \in Callers : SuspendReturn(s)
    \/ \E b \in BOOLEAN : SetCommandProcessing(b)
    \/ \E b \in BOOLEAN : SetWiFiConnecting(b)
    \/ ResetIdleCall

\* Any Manager, beside the client as main builds it.
InitPower ==
    /\ NewClient
    /\ cfg.dialer /\ cfg.onInvoke /\ ~cfg.deviceTokenPath
    /\ reason = newReadyState
    /\ rhist = RHistInit
    /\ \E conf \in Managers : NewManager(conf)
    /\ NewHandler(TRUE)

SpecPower == InitPower /\ [][NextPower]_vars


\* The process as main runs it: the gateway client with a gateway that lets it
\* register, and the touch loop suspending the device on short presses.
NextLifecycle ==
    \/ RunStart
    \/ DialOK
    \/ WaitFire
    \/ \E f \in WriterFrames : HSFrame(f, "ok")
    \/ ReadErr([kind |-> "plain"])
    \/ WriteBegin(RunW)
    \/ \E ok \in BOOLEAN : RunWriteEnd(ok)
    \/ Tick(Debounce)
    \/ SuspendCall("button")
    \/ SuspendGuard("button")
    \/ OnSuspend("button")
    \/ SleepCall("button")
    \/ \E err \in BOOLEAN : SleepReturn("button", err)
    \/ OnResumeBegin("button")
    \/ OnResumeLinkUp("button")
    \/ OnResumeRefresh("button")
    \/ SuspendResetIdle("button")
    \/ SuspendReturn("button")

SpecLifecycle == InitMain /\ [][NextLifecycle]_vars

\* ------------------------------------------------------------- the suspend claims
\* What one suspend cycle invokes, in order.
SuspendCycle == <<"OnSuspend", "sleep", "lastWake", "OnResume", "ResetIdle">>

\* C11: whatever the interleaving of the Suspend calls of the touch loop and of Run,
\* what they invoke is a sequence of cycles that do not overlap, each one by a single
\* caller and in the order OnSuspend, suspendFunc, the store of lastWake, OnResume,
\* ResetIdle (the last three only after a sleep without error); a Suspend called
\* while another is in flight returns ErrSuspendInProgress and invokes nothing.
C11_SuspendCyclesDoNotOverlap ==
    /\ [](/\ Len(phist.log) <= Len(SuspendCycle)
          /\ \A i \in DOMAIN phist.log :
                /\ phist.log[i].ev = SuspendCycle[i]
                /\ phist.log[i].who = phist.log[1].who)
    /\ [][suspending =>
            \A s \in Callers :
                SuspendCall(s) => /\ sus'[s] = [pc |-> "idle", res |-> "ErrSuspendInProgress"]
                                  /\ phist'.log = phist.log]_vars

\* Run's Suspend has gone through a whole cycle, and a short press in the meantime
\* was answered with ErrSuspendInProgress.
C11_Witness ==
    /\ Len(phist.log) = Len(SuspendCycle)
    /\ phist.log[1].who = "timer"
    /\ sus["timer"].pc = "done"
    /\ sus["button"] = [pc |-> "idle", res |-> "ErrSuspendInProgress"]

\* The device woke less than the debounce time ago.
JustWoke == lastWakeNano # 0 /\ now - lastWakeNano < Debounce

C13_NoSleepWhileBusy == ~phist.busy

\* C14, as the code has it: after a wake at time W, a Suspend whose guard runs while
\* now - W < debounce returns ErrSuspendBlocked, and one whose guard runs at exactly
\* W + debounce with no flag set goes on; a Suspend called while the cycle that woke
\* the device is still in flight returns ErrSuspendInProgress; so suspendFunc is not
\* called again before W + debounce.
C14_DebounceAfterWake ==
    /\ [](\A s \in Callers :
            (sus[s].pc \in {"onSuspend", "sleep"} /\ lastWakeNano # 0)
                => now - lastWakeNano >= Debounce)
    /\ [][lastWakeNano # 0 =>
            \A s \in Callers :
                /\ (sus[s].pc = "guard" /\ SuspendGuard(s)) =>
                     IF now - lastWakeNano < Debounce
                     THEN sus'[s] = [pc |-> "done", res |-> "ErrSuspendBlocked"]
                     ELSE (now - lastWakeNano = Debounce /\ ~wifiBusy /\ ~commandBusy)
                            => sus'[s].pc = "onSuspend"
                /\ (JustWoke /\ SuspendCall(s)) =>
                     \/ sus'[s].pc = "guard"
                     \/ sus'[s] = [pc |-> "idle", res |-> "ErrSuspendInProgress"]]_vars

\* A Suspend has passed the guard exactly the debounce time after the last wake.
C14_Witness ==
    \E s \in Callers :
        /\ sus[s].pc = "onSuspend"
        /\ lastWakeNano # 0
        /\ now - lastWakeNano = Debounce

\* C14 as stated: every Suspend called while now - W < debounce comes to the guard
\* and is refused there with ErrSuspendBlocked.
C14_RefusedAsBlocked ==
    [][JustWoke =>
        \A s \in Callers :
            /\ SuspendCall(s) => sus'[s].pc = "guard"
            /\ (sus[s].pc = "guard" /\ SuspendGuard(s))
                    => sus'[s] = [pc |-> "done", res |-> "ErrSuspendBlocked"]]_vars

\* C15: when suspendFunc returns an error, Suspend returns that error; OnResume is
\* not invoked, lastWake is not stored and Suspend does not reset the idle timer.
C15_SleepErrorEndsCycle ==
    /\ [](\A s \in Callers :
            (sus[s].pc = "done" /\ sus[s].res = "sleep error")
                => /\ Len(phist.log) = 2
                   /\ phist.log[2] = [ev |-> "sleep", who |-> s])
    /\ [][\A s \in Callers :
            /\ (sus[s].pc = "asleep" /\ SleepReturn(s, TRUE))
                => /\ sus'[s] = [pc |-> "done", res |-> "sleep error"]
                   /\ lastWakeNano' = lastWakeNano
                   /\ idleTimer' = idleTimer
                   /\ reason' = reason
                   /\ phist'.log = phist.log
            /\ (sus[s].pc = "done" /\ sus[s].res = "sleep error" /\ SuspendReturn(s))
                => /\ sus'[s] = [pc |-> "idle", res |-> "sleep error"]
                   /\ lastWakeNano' = lastWakeNano
                   /\ idleTimer' = idleTimer]_vars

\* suspendFunc has returned an error to a Suspend that is about to return it.
C15_Witness ==
    \E s \in Callers :
        /\ sus[s] = [pc |-> "done", res |-> "sleep error"]
        /\ phist.log = <<[ev |-> "OnSuspend", who |-> s], [ev |-> "sleep", who |-> s]>>


\* ------------------------------------------------------------- the idle timer claims
\* C16: with suspend enabled and a positive idle timeout, Run does not call Suspend
\* before the idle timeout has passed since the last ResetIdle (the deadline of the
\* timer); with suspend disabled or no positive timeout, ResetIdle makes and changes
\* no timer and Run never calls Suspend.
C16_NoSuspendBeforeIdleTimeout ==
    /\ ~phist.early
    /\ Disarmed(mgr) => (idleTimer = NoTimer /\ mrun \in {"start", "blocked", "returned"})

\* In Run, between the fire of the timer and the return of Suspend.
InAttempt == {"call", "suspend"}

\* C17: in Run every value taken from the timer's channel is followed by exactly one
\* call of Suspend and then, whatever Suspend returns, by a ResetIdle that arms the
\* timer for a full idle timeout before Run waits again, so that an idle device comes
\* to a new attempt after each refusal; Run returns only when the context is done.
C17_EveryFireRearms ==
    /\ [](/\ mrun = "call" => phist.attempts = 0
          /\ mrun \in {"suspend", "reset"} => (phist.fires = 1 /\ phist.attempts = 1)
          /\ mrun = "select" => (idleTimer.set /\ (idleTimer.active \/ idleTimer.c))
          /\ mrun = "returned" => ctxCancelled)
    /\ [][/\ (mrun \in InAttempt /\ mrun' \notin InAttempt) => mrun' = "reset"
          /\ mrun = "reset" =>
                (ManagerRunResetIdle =>
                    /\ mrun' = "select"
                    /\ idleTimer' = NewTimer(now, mgr.IdleTimeout))
          /\ (mrun # "returned" /\ mrun' = "returned") => ManagerRunCancel]_vars

\* Run's Suspend was refused because of the guard, and Run is about to arm the timer.
C17_Witness ==
    /\ mrun = "reset"
    /\ sus["timer"] = [pc |-> "idle", res |-> "ErrSuspendBlocked"]


\* ------------------------------------------------------------- the lifecycle claims
\* The reason the code gives: "wake" wins over "boot".
ReadyReason(h) ==
    IF h.resumed THEN "wake" ELSE IF ~h.registered THEN "boot" ELSE "reconnect"

\* The reason as stated: "boot" wins over "wake".
StatedReason(h) ==
    IF ~h.registered THEN "boot" ELSE IF h.resumed THEN "wake" ELSE "reconnect"

\* C18, as the code has it: the node.ready event of a registration carries "wake"
\* when OnResume has run since the registration before (or since the start, if
\* there was none), otherwise "boot" on the first registration of the process and
\* "reconnect" on every other.
C18_ReadyReason ==
    [][(pc = "handshake" /\ pc' = "reg_write") =>
            /\ wr'[RunW].frame.event = "node.ready"
            /\ wr'[RunW].frame.reason = ReadyReason(rhist)]_vars

\* The second connection registers after a resume: its node.ready says "wake".
C18_Witness ==
    /\ pc = "reg_write"
    /\ dials = 2
    /\ lastWakeNano # 0
    /\ wr[RunW].frame.event = "node.ready"
    /\ wr[RunW].frame.reason = "wake"

\* C18 as stated: the first registration of the process carries "boot", the first
\* one after a resume "wake", every other "reconnect".
C18_BootOnFirstRegistration ==
    [][(pc = "handshake" /\ pc' = "reg_write") =>
            wr'[RunW].frame.reason = StatedReason(rhist)]_vars

\* C19: after a wake the client does not dial before OnResume has brought the link
\* up, and the node.ready event with reason "wake" is not written before OnResume
\* has done the full refresh.
C19_ResumeSequenceOrdered ==
    [][/\ (pc = "dial" /\ pc' = "handshake")
            => \A s \in Callers : sus[s].pc \notin {"onResume", "linkup"}
       /\ (pc = "reg_write" /\ wr[RunW].frame.reason = "wake"
                /\ wr[RunW].st = "ready" /\ wr'[RunW].st = "writing")
            => \A s \in Callers : sus[s].pc \notin {"onResume", "linkup", "refresh"}]_vars


\* ------------------------------------------------------------- the canvas
\* Handler.present, part_003 lines 97-98, and Renderer.Render up to its loop: the
\* components are taken and Clear empties the image and the hit targets.
RenderStart(components, partial, cmd) ==
    /\ scene' = components
    /\ hitTargets' = Clear.targets
    /\ image' = Clear.image
    /\ render' = [pc |-> "render", todo |-> components, partial |-> partial]
    /\ chist' = [chist EXCEPT !.prev = hitTargets, !.seen = "none", !.cmd = cmd]

\* canvas.a2ui.push on the gateway goroutine (part_003, lines 73-80).
HandleA2UIPush(push) ==
    /\ render.pc = "idle"
    /\ Len(ApplyPush(scene, push)) <= MaxComps
    /\ RenderStart(ApplyPush(scene, push), TRUE, "canvas.a2ui.push")
    /\ UNCHANGED <<gvars, rvars, pvars, fbUpdate, sender, touch>>

\* canvas.present on the gateway goroutine (part_003, lines 38-39).
HandlePresent ==
    /\ render.pc = "idle"
    /\ RenderStart(scene, FALSE, "canvas.present")
    /\ UNCHANGED <<gvars, rvars, pvars, fbUpdate, sender, touch>>

\* A canvas.hide that empties the scene state as well.
HandleHideAndReset ==
    /\ render.pc = "idle"
    /\ scene' = <<>>
    /\ hitTargets' = Clear.targets
    /\ image' = Clear.image
    /\ fbUpdate' = Refresh(Update(TRUE, FALSE))
    /\ chist' = [chist EXCEPT !.prev = <<>>, !.seen = "none", !.cmd = "canvas.hide",
                              !.err = "", !.failed = ""]
    /\ UNCHANGED <<gvars, rvars, pvars, sender, touch, render>>

\* canvas.hide (part_003, lines 40-45): Clear, WriteGray and a full refresh.
HandleHide ==
    /\ render.pc = "idle"
    /\ hitTargets' = Clear.targets
    /\ image' = Clear.image
    /\ fbUpdate' = Refresh(Update(TRUE, FALSE))
    /\ chist' = [chist EXCEPT !.prev = <<>>, !.seen = "none", !.cmd = "canvas.hide",
                              !.err = "", !.failed = ""]
    /\ UNCHANGED <<gvars, rvars, pvars, scene, sender, touch, render>>

\* canvas.a2ui.reset (part_003, lines 56-62): the state is emptied, Clear, WriteGray
\* and a full refresh.
HandleReset ==
    /\ render.pc = "idle"
    /\ scene' = <<>>
    /\ hitTargets' = Clear.targets
    /\ image' = Clear.image
    /\ fbUpdate' = Refresh(Update(TRUE, FALSE))
    /\ chist' = [chist EXCEPT !.prev = <<>>, !.seen = "none", !.cmd = "canvas.a2ui.reset",
                              !.err = "", !.failed = ""]
    /\ UNCHANGED <<gvars, rvars, pvars, sender, touch, render>>

\* Renderer.Render, one pass of its loop.
RenderComponent ==
    /\ render.pc = "render"
    /\ render.todo # <<>>
    /\ LET r == renderComponent([image |-> image, targets |-> hitTargets],
                                Head(render.todo), 0, 0)
       IN  /\ hitTargets' = r.targets
           /\ image' = r.image
    /\ render' = [render EXCEPT !.todo = Tail(@)]
    /\ UNCHANGED <<gvars, rvars, pvars, scene, fbUpdate, sender, touch, chist>>

\* A present that asks for a partial, fast update whatever the command.
presentUpdatePartial(partial) == Update(FALSE, TRUE)

\* Handler.present, lines 102-105: the update asked of the framebuffer.
presentUpdate(partial) ==
    [Update(~partial, FALSE) EXCEPT !.Fast = IF partial THEN TRUE ELSE @]

\* Handler.present, lines 99-106: the image is written and refreshed.
RenderDone ==
    /\ render.pc = "render"
    /\ render.todo = <<>>
    /\ fbUpdate' = Refresh(presentUpdate(render.partial))
    /\ render' = NotRendering
    /\ UNCHANGED <<gvars, rvars, pvars, scene, hitTargets, image, sender, touch, chist>>

\* The SendEvent call of Handler.HandleTouch, part_003 lines 114-121, without the
\* time: the method, and the params, which have no event.
SendEventCall(action, x, y) ==
    [method |-> "canvas.a2ui.action", event |-> "",
     payload |-> [type |-> action.type, payload |-> action.payload, x |-> x, y |-> y]]

\* What HitTest can return when it reads HitTargets while a render writes it.
TornReads == {NoAction, ActionA, ActionB}

\* Handler.HandleTouch on the touch goroutine (part_003, lines 109-124): HitTest
\* reads Renderer.HitTargets with no lock.  While a render is writing it the read is a
\* data race: it gets the list as it is at that moment, or a slice header made of
\* parts of two lists (torn), of which anything may come.  chist notes whether what
\* was read is the whole list of the render before or of this one, a list in
\* between (part), or torn.
HandleTouch(x, y, torn, tornRead) ==
    /\ torn => render.pc = "render"
    /\ ~torn => tornRead = NoAction
    /\ LET action == IF torn THEN tornRead ELSE HitTest(hitTargets, x, y)
       IN  touch' = [x |-> x, y |-> y,
                     calls |-> IF action.nil \/ ~sender THEN <<>>
                               ELSE <<SendEventCall(action, x, y)>>]
    /\ chist' = [chist EXCEPT !.seen =
                    IF torn THEN "torn"
                    ELSE IF hitTargets \in {chist.prev, Render(Clear, scene).targets}
                    THEN "whole" ELSE "part"]
    /\ UNCHANGED <<gvars, rvars, pvars, scene, hitTargets, image, fbUpdate, sender, render>>

\* The canvas handler with the gateway goroutine running commands and the touch
\* goroutine running hit tests, for some of the pushes and of the points.
RacePushes == {push \in Pushes : push.components[1].children = <<>>
                                   /\ push.components[1].x < Width}
RacePoints == {<<0, 0>>, <<1, 0>>}

NextCanvas ==
    \/ \E push \in RacePushes : HandleA2UIPush(push)
    \/ HandlePresent
    \/ HandleHide
    \/ HandleReset
    \/ RenderComponent
    \/ RenderDone
    \/ \E p \in RacePoints, torn \in BOOLEAN, tornRead \in TornReads :
            HandleTouch(p[1], p[2], torn, tornRead)

SpecCanvas == InitMain /\ [][NextCanvas]_vars

\* ------------------------------------------------------------- the canvas, one call at a time
\* Handler.present, part_003 lines 97-107, from its call to its return with no hit
\* test in between.
present(components, partial, cmd) ==
    LET r == Render(Clear, components)
    IN  /\ scene' = components
        /\ hitTargets' = r.targets
        /\ image' = r.image
        /\ fbUpdate' = Refresh(presentUpdate(partial))
        /\ chist' = [chist EXCEPT !.prev = <<>>, !.seen = "none", !.cmd = cmd,
                                  !.err = "", !.failed = ""]
        /\ UNCHANGED <<gvars, rvars, pvars, sender, touch, render>>

\* A push command returns an error before present: the state holds the components
\* the command left in it, and nothing is rendered or refreshed.
returnError(components, cmd, err) ==
    /\ scene' = components
    /\ chist' = [chist EXCEPT !.err = err, !.failed = cmd]
    /\ UNCHANGED <<gvars, rvars, pvars, hitTargets, image, fbUpdate, sender, touch, render>>

\* HandleInvoke, canvas.a2ui.push, with the arguments as they arrive.
InvokePush(data) ==
    LET r == handleA2UIPush(scene, data)
    IN  /\ Len(r.components) <= MaxComps
        /\ IF r.err # "" THEN returnError(r.components, "canvas.a2ui.push", r.err)
           ELSE present(r.components, TRUE, "canvas.a2ui.push")

\* HandleInvoke, canvas.a2ui.pushJSONL, with the arguments as they arrive.
InvokePushJSONL(args) ==
    LET r == handleA2UIPushJSONL(scene, args)
    IN  /\ Len(r.components) <= MaxComps
        /\ IF r.err # "" THEN returnError(r.components, "canvas.a2ui.pushJSONL", r.err)
           ELSE present(r.components, TRUE, "canvas.a2ui.pushJSONL")

\* HandleInvoke, canvas.present.
InvokePresent == present(scene, FALSE, "canvas.present")

\* The second push of a pushJSONL: a button is added.
AppendPushes == {push \in Pushes : ~push.replace /\ push.components[1].type = "button"}

\* The arguments of canvas.a2ui.push and canvas.a2ui.pushJSONL that decode: a push
\* object, and two lines with a push object each.
ValidPushArgs  == {PushPayload(push) : push \in Pushes}
ValidJSONLArgs ==
    {[string |-> TRUE, lines |-> <<PushPayload(push1), PushPayload(push2)>>] :
        push1 \in Pushes, push2 \in AppendPushes}

\* The handler called as its tests call it: commands and touches one after the other.
NextHandler ==
    \/ \E data \in ValidPushArgs : InvokePush(data)
    \/ \E args \in ValidJSONLArgs : InvokePushJSONL(args)
    \/ InvokePresent
    \/ HandleHide
    \/ HandleReset
    \/ \E p \in Points : HandleTouch(p[1], p[2], FALSE, NoAction)

\* The handler with or without a sender.
InitHandler ==
    /\ NewClient
    /\ cfg.dialer /\ cfg.onInvoke /\ ~cfg.deviceTokenPath
    /\ reason = newReadyState
    /\ rhist = RHistInit
    /\ NewManager(MainManager)
    /\ \E s \in BOOLEAN : NewHandler(s)

SpecHandler == InitHandler /\ [][NextHandler]_vars

\* The handler given arguments that may not decode.  The arguments of
\* canvas.a2ui.push: a push object, a bare component, or something DecodeA2UIPush
\* refuses.  Those of canvas.a2ui.pushJSONL: two lines, of which one may be invalid,
\* or arguments that hold no string.
ButtonPushes == {push \in Pushes : push.components[1].type = "button"}
PushArgs ==
    {PushPayload(push) : push \in ButtonPushes}
    \cup {ComponentPayload(c) : c \in Components}
    \cup InvalidPayloads
JSONLLines == {PushPayload(push) : push \in ButtonPushes} \cup InvalidPayloads
JSONLArgs ==
    {[string |-> TRUE, lines |-> <<l1, l2>>] : l1, l2 \in JSONLLines}
    \cup {[string |-> FALSE, lines |-> <<l>>] : l \in JSONLLines}

NextDecode ==
    \/ \E data \in PushArgs : InvokePush(data)
    \/ \E args \in JSONLArgs : InvokePushJSONL(args)
    \/ InvokePresent
    \/ HandleHide
    \/ HandleReset
    \/ \E p \in RacePoints : HandleTouch(p[1], p[2], FALSE, NoAction)

SpecDecode == InitHandler /\ [][NextDecode]_vars

\* C20: a hit test of HandleTouch that runs while canvas.present or canvas.a2ui.*
\* renders sees the whole hit-target list of the render before or the whole list of
\* the new render, never a cleared or partly built one.
C20_HitTestSeesWholeList == chist.seen # "part"


\* ------------------------------------------------------------- the A2UI state on its own
\* Pushes of no, one or two components, as ApplyPush takes them.
SmallComponents == {Component("button", 0, 0, 2, 1, ActionA, <<>>),
                    Component("box", 0, 0, 0, 0, NoAction, <<>>)}
StatePushes ==
    [components : {<<>>} \cup {<<c>> : c \in SmallComponents}
                         \cup {<<c, d>> : c, d \in SmallComponents},
     replace : BOOLEAN]

\* A2UIState.ApplyPush (a2ui_test.go, lines 98-106) called on the state.
StateApplyPush(push) ==
    /\ Len(chist.pushes) < MaxPushes
    /\ scene' = ApplyPush(scene, push)
    /\ chist' = [chist EXCEPT !.pushes = Append(@, push)]
    /\ UNCHANGED <<gvars, rvars, pvars, hitTargets, image, fbUpdate, sender, touch, render>>

\* A2UIState.Reset (lines 92-96).
StateReset ==
    /\ scene' = <<>>
    /\ chist' = [chist EXCEPT !.pushes = <<>>]
    /\ UNCHANGED <<gvars, rvars, pvars, hitTargets, image, fbUpdate, sender, touch, render>>

NextState ==
    \/ \E push \in StatePushes : StateApplyPush(push)
    \/ StateReset

SpecState == InitMain /\ [][NextState]_vars

\* The first hit target, in the order of the list, that contains the point; 0 when
\* none does.
FirstTarget(targets, x, y) ==
    IF \E i \in DOMAIN targets : Contains(targets[i].rect, x, y)
    THEN CHOOSE i \in DOMAIN targets :
            /\ Contains(targets[i].rect, x, y)
            /\ \A j \in 1..(i - 1) : ~Contains(targets[j].rect, x, y)
    ELSE 0

\* The SendEvent call as stated: method "node.event", params with the event
\* "canvas.a2ui.action" and the payload.
StatedCall(action, x, y) ==
    [method |-> "node.event", event |-> "canvas.a2ui.action",
     payload |-> [type |-> action.type, payload |-> action.payload, x |-> x, y |-> y]]

\* C21: on a touch-down at (x, y), when a hit target of the last render contains the
\* point and a sender is configured, exactly one SendEvent is made, with method
\* "node.event" and params carrying the event "canvas.a2ui.action" and the payload
\* {type, payload, x, y}; otherwise nothing is sent.
C21_TouchSendsOneNodeEvent ==
    [][\A p \in Points :
        HandleTouch(p[1], p[2], FALSE, NoAction) =>
            touch'.calls =
                IF FirstTarget(hitTargets, p[1], p[2]) # 0 /\ sender
                THEN <<StatedCall(hitTargets[FirstTarget(hitTargets, p[1], p[2])].action,
                                  p[1], p[2])>>
                ELSE <<>>]_vars


\* C22: after any sequence of pushes, canvas.a2ui.reset leaves the scene empty, every
\* pixel at gray 255 and no hit target, so that a touch at any point then finds no
\* action and a canvas.present then renders a blank canvas.
C22_ResetLeavesBlank ==
    [][HandleReset =>
        /\ scene' = <<>>
        /\ \A p \in Pixels : image'[p] = White
        /\ hitTargets' = <<>>
        /\ \A p \in Points : HitTest(hitTargets', p[1], p[2]).nil
        /\ \A p \in Pixels : Render(Clear, scene').image[p] = White]_vars

\* A reset has emptied a scene whose button had been touched.
C22_Witness ==
    /\ scene = <<>>
    /\ touch.calls # <<>>
    /\ image = Blank
    /\ hitTargets = <<>>
    /\ fbUpdate = Refresh(Update(TRUE, FALSE))


\* The last push with replace set, 0 when there is none.
LastReplace(pushes) ==
    IF \E i \in DOMAIN pushes : pushes[i].replace
    THEN CHOOSE i \in DOMAIN pushes :
            pushes[i].replace /\ \A j \in (i + 1)..Len(pushes) : ~pushes[j].replace
    ELSE 0

\* The components of the pushes from the k-th on, in order.
RECURSIVE ComponentsFrom(_, _)
ComponentsFrom(pushes, k) ==
    IF k > Len(pushes) THEN <<>>
    ELSE pushes[k].components \o ComponentsFrom(pushes, k + 1)

\* The running total of the component counts, a push with replace starting it anew.
RECURSIVE RunningTotal(_)
RunningTotal(pushes) ==
    IF pushes = <<>> THEN 0
    ELSE LET last == pushes[Len(pushes)]
         IN  (IF last.replace THEN 0 ELSE RunningTotal(SubSeq(pushes, 1, Len(pushes) - 1)))
             + Len(last.components)

\* C23: after any sequence of pushes applied by ApplyPush to an empty scene, the scene
\* holds, in push order, the components of the last push with replace set followed
\* by those of all later pushes (of all pushes when none has replace set), and its
\* length is the running total of the component counts, each replace push starting
\* the total anew.
C23_SceneAfterPushes ==
    /\ scene = ComponentsFrom(chist.pushes,
                              IF LastReplace(chist.pushes) = 0 THEN 1
                              ELSE LastReplace(chist.pushes))
    /\ Len(scene) = RunningTotal(chist.pushes)

\* Three pushes, the second with replace set, the first and the third with components.
C23_Witness ==
    /\ Len(chist.pushes) = 3
    /\ chist.pushes[2].replace /\ ~chist.pushes[3].replace
    /\ Len(chist.pushes[1].components) = 2
    /\ Len(chist.pushes[2].components) = 1
    /\ Len(chist.pushes[3].components) = 2
    /\ Len(scene) = 3


\* Every component of the scene with its rectangle, parents before their children
\* and components in push order; the children of a list are stacked from its padding
\* down, each moved right by the padding.
RECURSIVE Flatten(_, _, _)
RECURSIVE FlattenChildren(_, _, _, _, _)
FlattenChildren(comp, k, x, y, cursorY) ==
    IF k > Len(comp.children) THEN <<>>
    ELSE LET child == comp.children[k]
             placed == IF comp.type # "list" THEN child
                       ELSE [child EXCEPT !.x = child.x + comp.padding,
                                          !.y = IF child.y = 0 THEN cursorY - y
                                                ELSE child.y]
         IN  Flatten(placed, x, y)
             \o FlattenChildren(comp, k + 1, x, y, cursorY + child.height + comp.padding)

Flatten(comp, offsetX, offsetY) ==
    <<[rect |-> componentRect(comp, offsetX, offsetY), action |-> comp.action]>>
    \o FlattenChildren(comp, 1, offsetX + comp.x, offsetY + comp.y,
                       offsetY + comp.y + comp.padding)

RECURSIVE FlattenAll(_)
FlattenAll(components) ==
    IF components = <<>> THEN <<>>
    ELSE Flatten(Head(components), 0, 0) \o FlattenAll(Tail(components))

\* A component that has an action and a rectangle that is not empty.
Touchable(c) == ~c.action.nil /\ Dx(c.rect) > 0 /\ Dy(c.rect) > 0

\* C24: after Render of any scene, HitTest(x, y) returns the action of the first hit
\* target in insertion order (parents before their children, components in push
\* order) whose rectangle contains (x, y), and nil when none does; every component
\* with an action and a rectangle that is not empty has a hit target and no other
\* component has one.
C24_HitTestFirstInOrder ==
    LET targets == Render(Clear, scene).targets
        flat == FlattenAll(scene)
    IN  /\ targets = SelectSeq(flat, Touchable)
        /\ \A p \in Points :
            LET hits == {i \in DOMAIN flat : Touchable(flat[i])
                                              /\ Contains(flat[i].rect, p[1], p[2])}
            IN  HitTest(targets, p[1], p[2]) =
                    IF hits = {} THEN NoAction
                    ELSE flat[CHOOSE i \in hits : \A j \in hits : i <= j].action

\* Two overlapping buttons are rendered and a touch where they overlap has sent the
\* action of the first.
C24_Witness ==
    /\ Len(hitTargets) = 2
    /\ hitTargets = Render(Clear, scene).targets
    /\ Contains(hitTargets[1].rect, touch.x, touch.y)
    /\ Contains(hitTargets[2].rect, touch.x, touch.y)
    /\ hitTargets[1].action # hitTargets[2].action
    /\ Len(touch.calls) = 1
    /\ touch.calls[1].payload.type = hitTargets[1].action.type


\* The refresh ioctl of a partial update with the A2 waveform, and of a full update.
PartialFast == [updateMode |-> UpdateModePartial, waveform |-> WaveformModeA2]
FullAuto    == [updateMode |-> UpdateModeFull, waveform |-> WaveformModeAuto]

C29_NoIdleSuspendWithinTimeoutOfActivity ==
    [][(mrun = "call" /\ mrun' # "call") => now >= idleTimer.deadline]_vars


\* ------------------------------------------------------------- more handshake claims
\* The handshake has read a connect.challenge with a new nonce that is not empty.
NewNonce == pc = "handshake" /\ nonce' # nonce /\ nonce' # ""

\* The connect request for the nonce just read is ready to be written.
ConnectFor(n) ==
    /\ pc' = "hs_write"
    /\ wr'[RunW].st = "ready"
    /\ wr'[RunW].frame.method = "connect"
    /\ wr'[RunW].frame.nonce = n

\* C25, as the code has it: during a handshake a connect.challenge with a non-empty
\* nonce different from the last one seen on the connection causes exactly one
\* connect request when none has been sent on the connection yet; once a connect
\* request has been sent, such a challenge only replaces the last nonce seen and
\* nothing is sent.
C25_ConnectOnFirstNewNonce ==
    [][NewNonce => IF connectSent
                   THEN pc' = "handshake" /\ wr' = wr /\ requestSeq' = requestSeq
                   ELSE ConnectFor(nonce')]_vars

\* A connect was sent for one nonce and a challenge with another has been read since.
C25_Witness ==
    /\ pc = "handshake"
    /\ connectSent
    /\ Len(hist.connects) = 1
    /\ nonce \notin {"", hist.connects[1].nonce}

\* C25 as stated: every challenge with a new non-empty nonce causes exactly one
\* connect request, also after a connect request has been sent.
C25_ConnectOnEveryNewNonce == [][NewNonce => ConnectFor(nonce')]_vars


\* ------------------------------------------------------------- more close claims
\* A policy-violation close whose reason has one of the two pairing phrases.
PairingCloses ==
    {e \in ReadErrors : /\ e.kind = "close"
                        /\ e.code = ClosePolicyViolation
                        /\ e.reason \cap {"pairing required", "device identity required"} # {}}

\* C26: a policy-violation close whose reason contains "pairing required" or "device
\* identity required" makes the wait before the next dial at least 10 s: the backoff
\* becomes the larger of the current backoff and 10 s and the override never lowers
\* it.
C26_PairingWaitsAtLeastTenSeconds ==
    [][\A e \in PairingCloses :
        ReadErr(e) => /\ pc' = "wait"
                      /\ backoff' = (IF backoff < 10000 THEN 10000 ELSE backoff)
                      /\ timer' = backoff'
                      /\ timer' >= 10000]_vars

\* A pairing close came when the backoff was above 10 s: the wait is the backoff.
C26_Witness ==
    /\ pc = "wait"
    /\ lastErr = backoffError("read", PairingBackoff)
    /\ timer > PairingBackoff

\* The auth of a connect request as the fallback rules give it for an empty device
\* token: the configured token (with the password, if any), else the password alone,
\* else no auth block.
StatedFallback ==
    IF cfg.authToken # "" THEN ConnectAuth(cfg.authToken, cfg.authPassword)
    ELSE IF cfg.authPassword # "" THEN ConnectAuth("", cfg.authPassword)
    ELSE NilAuth

\* The connect request of a handshake is handed to the writer.
ConnectBuilt ==
    /\ pc = "handshake"
    /\ pc' = "hs_write"

\* C27: after a policy-violation close with reason "device token mismatch", the
\* connect request of the next handshake has the auth of the fallback rules for an
\* empty device token, and neither its auth nor its signed token is a device token.
C27_NextConnectWithoutClearedToken ==
    [][(hist.mismatch.step = "closed" /\ ConnectBuilt) =>
            /\ wr'[RunW].frame.method = "connect"
            /\ wr'[RunW].frame.auth = StatedFallback
            /\ wr'[RunW].frame.signedToken = cfg.authToken
            /\ wr'[RunW].frame.auth.Token \notin {StoredToken, IssuedToken}]_vars

\* A connect request with the password alone is being written after a device token
\* was cleared by a mismatch close.
C27_Witness ==
    /\ pc = "hs_write"
    /\ wr[RunW].frame.method = "connect"
    /\ wr[RunW].frame.auth = ConnectAuth("", "pw")
    /\ hist.mismatch = [step |-> "connect", token |-> IssuedToken]
    /\ cfg.deviceTokenPath
    /\ tokenFile = NoFile


\* The res frames that answer the connect request of the handshake in progress and
\* reject it: ok=false, or ok=true with a payload whose type is not "hello-ok".
Refusals ==
    {f \in ResFrames(connectID) :
        /\ connectSent
        /\ f.id = connectID
        /\ \/ ~f.ok
           \/ f.ok /\ f.payload.valid /\ f.payload.type # "hello-ok"}

\* The error text stated for a refusal.
StatedRefusal(f) ==
    IF ~f.ok THEN (IF f.errMsg # "" THEN f.errMsg ELSE "gateway: connect rejected")
    ELSE "gateway: unexpected handshake payload"

\* C30: during the handshake a res whose id is the connect id, with ok=false or with
\* ok=true and a payload type other than "hello-ok", ends the handshake with the
\* stated error; OnRegistered is not invoked, no node.ready is written, the token in
\* memory and the token file stay as they are, the connection is closed and Run
\* waits for the backoff before the next cycle.
C30_RefusalEndsHandshake ==
    [][\A f \in Refusals, io \in SaveOutcomes :
        HSFrame(f, io) => /\ lastErr'.text = StatedRefusal(f)
                          /\ hist'.registered = hist.registered
                          /\ rhist' = rhist
                          /\ reason' = reason
                          /\ wr'[RunW] = Idle
                          /\ deviceToken' = deviceToken
                          /\ tokenFile' = tokenFile
                          /\ conn' = 0
                          /\ pc' = "wait"
                          /\ timer' = backoff
                          /\ backoff' = backoff]_vars

\* Run waits after a res of an unexpected type that carried a token, with a token
\* path configured and nothing saved.
C30_Witness ==
    /\ pc = "wait"
    /\ conn = 0
    /\ lastErr.text = "gateway: unexpected handshake payload"
    /\ cfg.deviceTokenPath
    /\ deviceToken = ""
    /\ tokenFile = NoFile
    /\ hist.registered = 0


\* The auth block of the four-rule cascade: the configured token with any password,
\* else the device token with the password if set, else the password with an empty
\* token, else no auth.
StatedCascade ==
    IF cfg.authToken # "" THEN ConnectAuth(cfg.authToken, cfg.authPassword)
    ELSE IF deviceToken # "" THEN ConnectAuth(deviceToken, cfg.authPassword)
    ELSE IF cfg.authPassword # "" THEN ConnectAuth("", cfg.authPassword)
    ELSE NilAuth

\* C31: for every configured token, configured password and device token, the connect
\* request carries the auth block of the four-rule cascade, and the token signed into
\* the device-auth payload is the token of that block (empty when the block is
\* omitted or holds the password alone).
C31_AuthFollowsCascade ==
    [][ConnectBuilt => /\ wr'[RunW].frame.auth = StatedCascade
                       /\ wr'[RunW].frame.signedToken = wr'[RunW].frame.auth.Token
                       /\ (wr'[RunW].frame.auth.nil
                              => wr'[RunW].frame.signedToken = "")]_vars

\* A connect request with the issued device token and the configured password is
\* being written.
C31_Witness ==
    /\ pc = "hs_write"
    /\ wr[RunW].frame.method = "connect"
    /\ cfg.authToken = ""
    /\ cfg.authPassword = "pw"
    /\ deviceToken = IssuedToken
    /\ wr[RunW].frame.auth = ConnectAuth(IssuedToken, "pw")
    /\ wr[RunW].frame.signedToken = IssuedToken


\* The connection is past its handshake.
PastHandshake == {"reg_write", "read", "rl_write"}

\* An error that applyBackoffOverride acts on.
Overrides(err) == err.typed /\ err.backoff > 0

\* C32: a successful handshake sets the backoff to 1 s, it stays 1 s while the
\* connection lives, and when the connection ends with an error that carries no
\* override the wait before the next dial is 1 s.
C32_WaitOneSecondAfterReady ==
    [][/\ (pc = "handshake" /\ pc' = "reg_write") => backoff' = InitialBackoff
       /\ (pc \in PastHandshake /\ pc' \in PastHandshake) => backoff' = InitialBackoff
       /\ (pc \in PastHandshake /\ pc' = "wait" /\ ~Overrides(lastErr'))
             => /\ backoff = InitialBackoff
                /\ timer' = InitialBackoff]_vars

\* Run waits 1 s after a connection whose handshake succeeded when failed cycles had
\* raised the backoff to 4 s or more.
C32_Witness ==
    /\ pc = "wait"
    /\ timer = InitialBackoff
    /\ hist.resetFrom4
    /\ ~Overrides(lastErr)


\* C33: after Ready, when WriteMessage fails for a frame of the Run goroutine (a
\* node.invoke.result), the read loop ends and Run takes the reconnect path: the
\* connection is closed and Run waits for the backoff.
C33_WriteErrorEndsReadLoop ==
    [][(pc = "rl_write" /\ RunWriteEnd(FALSE)) => /\ conn' = 0
                                                 /\ pc' = "wait"
                                                 /\ lastErr'.kind = "write"]_vars


\* The frames the read loop has no use for: tick, voicewake.changed and unknown
\* events, connect.challenge, every res, a req with another method, a frame of
\* another type and malformed JSON.
PassedOver == IgnoredFrames \cup ChallengeFrames \cup ResFrames(ForeignID)

\* C34: after Ready, a frame the read loop has no use for calls no invoke handler,
\* makes the Run goroutine write nothing (no request id is taken, no connect is
\* built) and, unless the context was cancelled meanwhile, leaves the read loop
\* reading on the same connection.
C34_PassedOverFramesDoNothing ==
    [][\A f \in PassedOver :
        (pc = "read" /\ RLFrame(f, ""))
                       => /\ requestSeq' = requestSeq
                          /\ wr'[RunW] = Idle
                          /\ connectSent' = connectSent
                          /\ hist'.lastWrite = hist.lastWrite \/ ctxCancelled
                          /\ ctxCancelled \/ /\ pc' = "read"
                                              /\ conn' = conn
                                              /\ lastErr' = lastErr
                                              /\ hist'.calls = hist.calls
                                              /\ hist'.results = hist.results]_vars

\* The read loop is reading again after it passed over such a frame, with no handler
\* call and no result written on the connection.
C34_Witness ==
    /\ pc = "read"
    /\ conn # 0
    /\ hist.skipped = "other"
    /\ hist.calls = 0
    /\ hist.results = 0
    /\ wr[RunW] = Idle


\* The node.invoke.request frames, event or req, whose payload does not decode or
\* has no id, no nodeId or no command.
BadInvokeFrames == InvokeFrames \ GoodInvokeFrames

\* C37: after Ready, a node.invoke.request whose payload is malformed or lacks id,
\* nodeId or command calls no invoke handler, gives no node.invoke.result frame to
\* the writer and, unless the context was cancelled meanwhile, leaves the read loop
\* reading on the same connection.
C37_BadInvokeIsDropped ==
    [][\A f \in BadInvokeFrames :
        (pc = "read" /\ RLFrame(f, ""))
                       => /\ requestSeq' = requestSeq
                          /\ wr'[RunW] = Idle
                          /\ wr'[RunW].frame.method # "node.invoke.result"
                          /\ ctxCancelled \/ /\ pc' = "read"
                                              /\ conn' = conn
                                              /\ hist'.calls = hist.calls
                                              /\ hist'.results = hist.results
                                              /\ hist'.lastInvoke = hist.lastInvoke]_vars

\* The read loop is reading again after it dropped such a request, with no handler
\* call on the connection.
C37_Witness ==
    /\ pc = "read"
    /\ conn # 0
    /\ hist.skipped = "invoke"
    /\ hist.calls = 0
    /\ hist.results = 0
    /\ hist.lastWrite.method # "node.invoke.result"


\* Arguments of a push that do not decode, and arguments of a pushJSONL that hold no
\* string or have a line that does not decode.
InvalidPushArgs == PushArgs \cap InvalidPayloads
InvalidJSONLArgs ==
    {args \in JSONLArgs :
        ~args.string \/ \E i \in DOMAIN args.lines : args.lines[i] \in InvalidPayloads}

\* The command returned an error and left the scene state, the bitmap, the hit
\* targets and the refresh of the framebuffer as they were.
ErrorAndNoChange ==
    /\ chist'.err # ""
    /\ scene' = scene
    /\ image' = image
    /\ hitTargets' = hitTargets
    /\ fbUpdate' = fbUpdate

\* C35: a canvas.a2ui.push or canvas.a2ui.pushJSONL whose arguments do not decode
\* returns an error and leaves the scene state, the bitmap and the hit-target list
\* unchanged; a pushJSONL with one invalid line applies the push of no line.
C35_InvalidPushChangesNothing ==
    [][/\ \A data \in InvalidPushArgs : InvokePush(data) => ErrorAndNoChange
       /\ \A args \in InvalidJSONLArgs : InvokePushJSONL(args) => ErrorAndNoChange]_vars

\* A pushJSONL has returned the decoding error with two components in the scene,
\* rendered with their hit targets.
C35_Witness ==
    /\ chist.failed = "canvas.a2ui.pushJSONL"
    /\ chist.err = "invalid A2UI payload"
    /\ Len(scene) = 2
    /\ hitTargets # <<>>
    /\ hitTargets = Render(Clear, scene).targets


\* A Suspend call is between its swap of the flag and its return.
Executing(s) == sus[s].pc # "idle"

\* C38: the suspending flag is set exactly while a Suspend call is executing; every
\* return of such a call (blocked by the gate, sleep error, success) clears it; and a
\* Suspend is refused with ErrSuspendInProgress only while another call is
\* executing, never on account of a call that has returned.
C38_SuspendingOnlyWhileExecuting ==
    /\ [](suspending <=> \E s \in Callers : Executing(s))
    /\ [][\A s \in Callers :
            /\ (Executing(s) /\ SuspendReturn(s)) => ~suspending'
            /\ (~Executing(s) /\ SuspendCall(s) /\ sus'[s].res = "ErrSuspendInProgress")
                  => \E t \in Callers \ {s} : Executing(t)]_vars

\* The short press's Suspend has returned the sleep error, and Run's Suspend, called
\* afterwards, holds the flag and is at the gate.
C38_Witness ==
    /\ sus["button"] = [pc |-> "idle", res |-> "sleep error"]
    /\ sus["timer"].pc = "guard"
    /\ suspending


\* The last command that went through was canvas.hide.
Hidden == chist.cmd = "canvas.hide"

\* C39: canvas.hide leaves a white bitmap and no hit target and does not touch the
\* scene state.  While hidden no touch sends an action event.  Before the hide the
\* hit targets are those of the rendered scene, and a canvas.present after it renders
\* the same components and gives the same hit targets again.
C39_HideKeepsScene ==
    /\ [](hitTargets = IF Hidden THEN <<>> ELSE Render(Clear, scene).targets)
    /\ [][/\ HandleHide => /\ scene' = scene
                           /\ image' = Blank
                           /\ hitTargets' = <<>>
          /\ Hidden => \A p \in Points :
                          HandleTouch(p[1], p[2], FALSE, NoAction) => touch'.calls = <<>>
          /\ (Hidden /\ InvokePresent) => /\ scene' = scene
                                          /\ hitTargets' = Render(Clear, scene).targets
                                          /\ image' = Render(Clear, scene).image]_vars

\* After a canvas.hide a touch on a point that a component with an action covers in
\* the scene has sent nothing, with a sender configured.
C39_Witness ==
    /\ Hidden
    /\ chist.seen # "none"
    /\ sender
    /\ touch.calls = <<>>
    /\ hitTargets = <<>>
    /\ ~HitTest(Render(Clear, scene).targets, touch.x, touch.y).nil


\* registerNode has not returned yet on the connection Run holds.
InHandshake == pc \in {"handshake", "hs_write"}

\* C36: while the handshake of a connection is in progress, the only frame whose
\* write on that connection succeeds is the connect request of the Run goroutine:
\* no SendEvent of the touch goroutine and no ping gets through.
C36_OnlyConnectBeforeHelloOk ==
    [][InHandshake => /\ ~TouchWriteEnd(TRUE)
                      /\ \A k \in 1..MaxConns : ~PingWriteEnd(k, TRUE)
                      /\ RunWriteEnd(TRUE) => wr[RunW].frame.method = "connect"]_vars


\* Run holds no connection: before the first dial, while it dials, while it waits and
\* after it has returned.
Unconnected == {"start", "dial", "wait", "returned"}

\* C40: the client holds at most one connection.  Whenever Run is about to dial,
\* dials or waits, the stored connection is nil; a connection is never replaced by
\* another without having been closed and set to nil first; and a SendEvent made
\* while the stored connection is nil returns "gateway: no connection" and writes
\* nothing.
C40_OneConnectionAtATime ==
    /\ [](pc \in Unconnected => conn = 0)
    /\ [][/\ conn' # conn => (conn = 0 \/ conn' = 0)
          /\ DialOK => (conn = 0 /\ conn' = dials')
          /\ (conn = 0 /\ TouchSend)
                => /\ hist'.lastSend = [res |-> "gateway: no connection", writes |-> 0]
                   /\ wr' = wr
                   /\ writeMu' = writeMu]_vars

\* After the first connection was closed, and before the next dial has succeeded, a
\* SendEvent of the touch goroutine has returned "gateway: no connection".
C40_Witness ==
    /\ pc = "wait"
    /\ dials = 1
    /\ conn = 0
    /\ hist.noConnAt = "wait"
    /\ hist.lastSend = [res |-> "gateway: no connection", writes |-> 0]
    /\ wr[TouchW] = Idle

====
